---- MODULE Spec2Model ----
(***************************************************************************)
(* State-machine model of the download engine of M3U-Downloader:           *)
(*   AsyncDownloader._download_chunk / _merge_chunks / download_file,      *)
(*   DownloadManager.start_downloads (src/async_downloader.py),            *)
(*   ConnectionPool and DownloadOptimizer.calculate_optimal_chunks         *)
(*   (src/download_optimizer.py), DownloadState (src/download_state.py),   *)
(*   IPTVAuthenticator.authenticate (src/iptv_auth.py).                    *)
(*                                                                         *)
(* One action is one run of a coroutine between two suspension points of   *)
(* the asyncio event loop.  Sizes are bytes; a response body is delivered  *)
(* in blocks of BlockSize bytes (four reads of 65536 bytes taken together) *)
(* and a file's content is the sequence of the source blocks it holds.     *)
(* Files follow POSIX semantics: a handle stays on its inode when the name *)
(* is removed or renamed.  asyncio.Semaphore is a counter whose waiters    *)
(* are granted in any order.  The token bucket of apply_rate_limit only    *)
(* delays a fetcher: it is modelled with its callers and a clock in a      *)
(* specification of its own (SpecRate), and calculate_optimal_chunks is    *)
(* applied to sizes of all tiers in SpecPlan.  The state file with its     *)
(* JSON text is followed in SpecStore, the backoff factor of a URL in      *)
(* SpecBackoff, the names of the state files of two destinations in        *)
(* SpecDir, and the UI thread that reads active_downloads while the engine *)
(* thread writes it in SpecTable.                                          *)
(***************************************************************************)
EXTENDS Integers, Sequences, FiniteSets, TLC

VARIABLES cfg, jobs, faults, engine, pool, active_downloads, job, task,
          parts, dest, statefile, clock, optimizer, fetcher, plan, store,
          backoff_factors, state_dir, ui

\* the engine
downloads == <<cfg, jobs, faults, engine, pool, active_downloads, job, task,
               parts, dest, statefile>>

\* the token bucket with its callers, one call of the planner, the state
\* file of one destination, the backoff factor of one URL, the state
\* directory of two destinations, and the UI thread
units == <<clock, optimizer, fetcher, plan, store, backoff_factors,
          state_dir, ui>>

vars == <<downloads, units>>

-----------------------------------------------------------------------------
(* Bounds of the model *)

\* faulty replies of a server and restarts of the process in one behaviour
\* (faults counts the ones that are left)
MaxFaults == 2

\* max_chunks handed to the engine (chunk indexes 0 .. MaxChunks-1)
MaxChunks == 2

\* chunk fetchers of one URL that call apply_rate_limit
MaxFetchers == 2

\* largest max_chunks handed to calculate_optimal_chunks on its own
MaxPlanChunks == 4

\* the calls of save_state that are followed
MaxSaves == 2

\* the calls of handle_server_error, update_speed and apply_rate_limit on
\* one URL that are followed
MaxCalls == 7

(* Program constants *)

\* self.retry_count
retry_count == 3

\* chunk_size of response.content.iter_chunked
ReadSize == 65536

\* DownloadOptimizer.max_chunk_size
max_chunk_size == 4194304

MiB == 1024 * 1024

BlockSize == 4 * ReadSize

None == -1

Jobs == {1, 2, 3}

Hosts == {"h1", "h2", "h3"}

ChunkIds == 0 .. (MaxChunks - 1)

Attempts == 1 .. retry_count

TaskIds == Jobs \X Attempts \X ChunkIds

Fetchers == 1 .. MaxFetchers

\* a URL: its host, whether its query carries mac/stream/type, and the
\* version of its play_token (0: the query has no play_token)
Url(h, a, k) == [host |-> h, auth |-> a, token |-> k]

\* ConnectionPool._get_host
get_host(url) == url.host

\* the destination path of job j, f"{filepath}_{chunk_id}" and the part file
PathOf(j) == <<"out", j>>

Key(j, c) == PathOf(j) \o <<"_", c>>

-----------------------------------------------------------------------------
(* Python dict helpers *)

DictSet(d, k, v) == [x \in (DOMAIN d) \cup {k} |-> IF x = k THEN v ELSE d[x]]

DictDel(d, k) == [x \in (DOMAIN d) \ {k} |-> d[x]]

DictGet(d, k, dflt) == IF k \in DOMAIN d THEN d[k] ELSE dflt

EmptyDict == [x \in {} |-> 0]

-----------------------------------------------------------------------------
(* ConnectionPool *)

\* ConnectionPool.__init__ ; host semaphores are created by the first acquire
\* of a host with max_per_host permits, which no release can precede
NewPool(max_connections, max_per_host) ==
  [semaphore |-> max_connections,
   host_semaphores |-> [h \in Hosts |-> max_per_host],
   active_connections |-> EmptyDict,
   host_connections |-> EmptyDict]

\* acquire, first await: self.semaphore.acquire()
CanAcquireGlobal(p) == p.semaphore > 0

\* an acquire that passes the global semaphore without taking a permit
PassGlobal(p) == p

AcquireGlobal(p) == [p EXCEPT !.semaphore = @ - 1]

\* a pool whose acquire does not wait for the host semaphore
NoHostLimit(p, url) == TRUE

\* acquire, second await and the counter updates
CanAcquireHost(p, url) == p.host_semaphores[get_host(url)] > 0

AcquireHost(p, url) ==
  [p EXCEPT !.host_semaphores[get_host(url)] = @ - 1,
            !.active_connections = DictSet(@, url, DictGet(@, url, 0) + 1),
            !.host_connections =
                DictSet(@, get_host(url), DictGet(@, get_host(url), 0) + 1)]

DecOrDel(d, k) ==
  IF k \in DOMAIN d
  THEN IF d[k] - 1 <= 0 THEN DictDel(d, k) ELSE [d EXCEPT ![k] = @ - 1]
  ELSE d

\* a release that keeps the permit of the host semaphore
LeakyRelease(p, url) ==
  [p EXCEPT !.active_connections = DecOrDel(@, url),
            !.host_connections = DecOrDel(@, get_host(url)),
            !.semaphore = @ + 1]

\* ConnectionPool.release
Release(p, url) ==
  [p EXCEPT !.active_connections = DecOrDel(@, url),
            !.host_connections = DecOrDel(@, get_host(url)),
            !.host_semaphores[get_host(url)] = @ + 1,
            !.semaphore = @ + 1]

-----------------------------------------------------------------------------
(* DownloadOptimizer.calculate_optimal_chunks *)

\* a planner without size tiers
AlwaysMaxChunks(file_size, max_chunks) == max_chunks

NumChunks(file_size, max_chunks) ==
  IF file_size < 1024 * 1024 THEN 1
  ELSE IF file_size < 10 * 1024 * 1024 THEN (IF 2 < max_chunks THEN 2 ELSE max_chunks)
  ELSE IF file_size < 100 * 1024 * 1024 THEN (IF 4 < max_chunks THEN 4 ELSE max_chunks)
  ELSE max_chunks

\* a planner whose chunks end one byte late
OverlappingChunks(file_size, max_chunks) ==
  LET n == NumChunks(file_size, max_chunks)
      chunk_size == file_size \div n
  IN [i \in 1 .. n |->
        <<(i - 1) * chunk_size, IF i = n THEN None ELSE i * chunk_size>>]

\* a planner that closes the last chunk
ClosedChunks(file_size, max_chunks) ==
  LET n == NumChunks(file_size, max_chunks)
      chunk_size == file_size \div n
  IN [i \in 1 .. n |->
        <<(i - 1) * chunk_size,
          IF i = n THEN file_size - 1 ELSE i * chunk_size - 1>>]

calculate_optimal_chunks(file_size, max_chunks) ==
  IF file_size <= 0 THEN << <<0, None>> >>
  ELSE LET n == NumChunks(file_size, max_chunks)
           chunk_size == file_size \div n
       IN [i \in 1 .. n |->
             <<(i - 1) * chunk_size,
               IF i - 1 = n - 1 THEN None ELSE i * chunk_size - 1>>]

-----------------------------------------------------------------------------
(* Disk: part files, destination files, state files *)

NoFile == <<None>>

NoState == [none |-> TRUE]

\* os.path.getsize
getsize(f) == Len(f) * BlockSize

\* a write of block b through a handle opened 'ab' (always at the end) or
\* 'wb' (at the handle's own position pos, counted in blocks; 0 is a hole)
WriteBlock(f, mode, pos, b) ==
  IF mode = "ab" THEN Append(f, b)
  ELSE IF pos < Len(f) THEN [f EXCEPT ![pos + 1] = b]
  ELSE f \o [i \in 1 .. (pos - Len(f)) |-> 0] \o <<b>>

\* DownloadState.load_state: the record of the state file, or None
load_state(j) == statefile[j]

\* DownloadState.clear_state
clear_state(sf, j) == [sf EXCEPT ![j] = NoState]

\* DownloadState.save_state (json.dump turns the chunk ids into strings,
\* which download_file looks up as str(i))
save_state(sf, j, url, downloaded_chunks, total_size) ==
  [sf EXCEPT ![j] = [url |-> url, total_size |-> total_size,
                     downloaded_chunks |-> downloaded_chunks]]

-----------------------------------------------------------------------------
(* The server *)

\* the blocks of bytes first .. last of the file of job j
BlocksOf(first, last) ==
  [i \in 1 .. ((last + 1 - first) \div BlockSize) |-> (first \div BlockSize) + i]

\* IPTVAuthenticator.authenticate: the URL unchanged (parameters missing, any
\* failure) or with a new play_token
NewToken(k) == IF k = 1 THEN 2 ELSE 1

authenticate(url) ==
  IF ~url.auth THEN {url} ELSE {url, [url EXCEPT !.token = NewToken(@)]}

-----------------------------------------------------------------------------
(* Coroutine records *)

NoUrl == Url("none", FALSE, 0)

NoTask ==
  [pc |-> "none", url |-> NoUrl, start |-> None, end |-> None,
   resume_from |-> 0, bytes_downloaded |-> 0, retries |-> 0, file_mode |-> "wb",
   total_size |-> 0, gets |-> 0, status |-> None, signalled |-> FALSE,
   sleep_time |-> 0,
   body |-> <<>>, fpos |-> 0, handle |-> "none", late |-> FALSE]

NoJob ==
  [pc |-> "idle", url |-> NoUrl, retries |-> 0, resume_state |-> NoState,
   file_size |-> 0, nchunks |-> 0, merged |-> 0, sleep_time |-> 0,
   signalled |-> 0]

\* the chunk tasks of job j's current attempt
Attempt(j) == job[j].retries + 1

Live(tk) == tk.pc \in {"acq_g", "acq_h", "get", "stream", "backoff"}

\* a finished coroutine keeps its result and drops its locals; one that
\* raised is remembered with the number of its GET requests
Finished(tk, pc) ==
  [NoTask EXCEPT !.pc = pc, !.bytes_downloaded = tk.bytes_downloaded,
                 !.resume_from = tk.resume_from, !.start = tk.start, !.end = tk.end,
                 !.gets = IF pc = "failed" THEN tk.gets ELSE 0]

\* handles of job j's tasks that are open on a removed or replaced name
Detach(tf, j, names, chunks) ==
  [id \in DOMAIN tf |->
     IF id[1] = j /\ tf[id].pc = "stream" /\ tf[id].handle \in names
        /\ (tf[id].handle = "part" => id[3] \in chunks)
     THEN [tf[id] EXCEPT !.handle = "gone"] ELSE tf[id]]

-----------------------------------------------------------------------------
(* Initial states *)

\* AsyncDownloader.__init__
NewEngine(c) == NewPool(c.max_concurrent * 2, c.max_concurrent)

\* DownloadOptimizer.__init__: no URL has a bucket yet
NoBucket ==
  [max_speed_limit |-> None, known |-> FALSE, rate_limit_tokens |-> 0,
   last_token_update |-> 0]

\* no caller of apply_rate_limit
NoFetcher == [pc |-> "none", todo |-> 0, reads |-> 0, wake_at |-> 0]

\* no call of calculate_optimal_chunks
NoPlan ==
  [pc |-> "none", file_size |-> 0, max_chunks |-> 0, chunks |-> <<>>,
   ranges |-> <<>>]

\* DownloadState.__init__: no state file, no call of save_state or load_state
NoStore ==
  [pc |-> "idle", exists |-> FALSE, text |-> <<>>, len |-> 0,
   had |-> FALSE, before |-> <<>>, crashed |-> FALSE, state |-> <<>>,
   loaded |-> <<>>, saves |-> 0]

\* DownloadOptimizer.__init__: backoff_factors = {}, no entry for the URL;
\* a factor is the fraction num / den
NoFactors == [known |-> FALSE, limited |-> FALSE, num |-> 1, den |-> 1, calls |-> 0]

\* DownloadState.__init__: an empty state directory; paths are the
\* destination paths of two jobs, files maps the name of a state file to the
\* filepath member of the record in it, saved holds the destination paths
\* whose save_state was not followed by their clear_state
NoDir == [paths |-> <<>>, files |-> EmptyDict, saved |-> {}]

\* the UI thread outside get_active_downloads; in the call, used is the
\* size of the table when its iteration began, seen the keys visited and
\* bytes_downloaded the sum built so far
NoReader == [pc |-> "idle", used |-> 0, seen |-> {}, bytes_downloaded |-> 0]

\* the engine's specifications leave the bucket, the planner, the state file
\* and the backoff factor aside
IdleUnits ==
  /\ clock = 0
  /\ optimizer = NoBucket
  /\ fetcher = [f \in Fetchers |-> NoFetcher]
  /\ plan = NoPlan
  /\ store = NoStore
  /\ backoff_factors = NoFactors
  /\ state_dir = NoDir
  /\ ui = NoReader

InitEngine ==
  /\ IdleUnits
  /\ engine = "run"
  /\ pool = NewEngine(cfg)
  /\ active_downloads = EmptyDict
  /\ task = [id \in TaskIds |-> NoTask]
  /\ job = [j \in Jobs |->
              IF jobs[j].on THEN [NoJob EXCEPT !.pc = "start", !.url = jobs[j].url]
              ELSE NoJob]

\* the disk is clean, or holds what an interrupted download of the same URL to the same path
\* left (a state record, the first block of chunk 0) and an older destination
FileUrl == Url("h1", FALSE, 0)

DiskClean ==
  [parts |-> [k \in Jobs \X ChunkIds |-> NoFile],
   dest |-> [j \in Jobs |-> NoFile],
   statefile |-> [j \in Jobs |-> NoState]]

DiskLeftover ==
  [parts |-> [k \in Jobs \X ChunkIds |-> IF k = <<1, 0>> THEN <<1>> ELSE NoFile],
   dest |-> [j \in Jobs |-> NoFile],
   statefile |-> [j \in Jobs |->
      IF j = 1 THEN [url |-> FileUrl, total_size |-> MiB,
                     downloaded_chunks |-> (0 :> BlockSize)]
      ELSE NoState]]

\* what an interrupted download left when its first chunk was complete
\* (bytes 0-524287) and its second chunk half done
DiskChunkDone ==
  [parts |-> [k \in Jobs \X ChunkIds |->
                IF k = <<1, 0>> THEN <<1, 2>> ELSE IF k = <<1, 1>> THEN <<3>>
                ELSE NoFile],
   dest |-> [j \in Jobs |-> NoFile],
   statefile |-> [j \in Jobs |->
      IF j = 1 THEN [url |-> FileUrl, total_size |-> MiB,
                     downloaded_chunks |-> (0 :> 2 * BlockSize) @@ (1 :> BlockSize)]
      ELSE NoState]]

\* a server: does it answer 200 to HEAD, does that answer advertise
\* Accept-Ranges: bytes, does it serve GET, does GET honour a Range header,
\* and are its faults transport errors and error statuses only (exact) or
\* also wrong bodies
Server(head, adv, get, hon, exact) ==
  [head_ok |-> head, accept_ranges |-> adv, get_ok |-> get, honours_range |-> hon,
   exact |-> exact, get_status |-> IF get THEN 200 ELSE 404]

Ranged == Server(TRUE, TRUE, TRUE, TRUE, TRUE)

Plain == Server(TRUE, FALSE, TRUE, FALSE, TRUE)

Sloppy == Server(TRUE, TRUE, TRUE, TRUE, FALSE)

\* a file that is gone, a file the server lists and refuses to serve
Gone == Server(FALSE, FALSE, FALSE, FALSE, TRUE)

Refused == Server(TRUE, TRUE, FALSE, FALSE, TRUE)

\* a server that advertises ranges and answers every GET with the whole file
Deaf == Server(TRUE, TRUE, TRUE, FALSE, TRUE)

\* a portal that accepts no play_token: it answers every GET with 458
Expired == [Refused EXCEPT !.get_status = 458]

\* a job, its server and its destination directory: writable says that the
\* directory can be created and the part files opened
JobOf(on, url, size, srv) ==
  [on |-> on, url |-> url, size |-> size, head_ok |-> srv.head_ok,
   accept_ranges |-> srv.accept_ranges, get_ok |-> srv.get_ok,
   honours_range |-> srv.honours_range, exact |-> srv.exact,
   get_status |-> srv.get_status, writable |-> TRUE]

\* one job of 1 MiB (two chunks of two blocks) on one host
InitFile(concurrents, resumes, servers, disks, budget) ==
  /\ \E m \in concurrents, r \in resumes :
       cfg = [max_concurrent |-> m, max_chunks |-> MaxChunks,
              enable_resume |-> r, enable_chunked |-> TRUE]
  /\ \E srv \in servers :
       jobs = [j \in Jobs |-> JobOf(j = 1, FileUrl, MiB, srv)]
  /\ \E d \in disks :
       /\ parts = d.parts
       /\ dest = d.dest
       /\ statefile = d.statefile
  /\ faults = budget
  /\ InitEngine

\* three jobs of one block each, two of them on the same host, one with a
\* play_token, and one connection per host
PoolUrl(j) == IF j = 1 THEN Url("h1", TRUE, 1) ELSE IF j = 2 THEN Url("h1", FALSE, 0)
              ELSE Url("h2", FALSE, 0)

InitPool(budget) ==
  /\ cfg = [max_concurrent |-> 1, max_chunks |-> MaxChunks,
            enable_resume |-> TRUE, enable_chunked |-> TRUE]
  /\ jobs = [j \in Jobs |-> JobOf(TRUE, PoolUrl(j), BlockSize,
                                  IF j = 2 THEN Ranged ELSE Plain)]
  /\ parts = DiskClean.parts
  /\ dest = DiskClean.dest
  /\ statefile = DiskClean.statefile
  /\ faults = budget
  /\ InitEngine

\* a batch of three jobs of one block each, one connection per host: the
\* server of job 1 has lost the file, refuses its GET or rejects every
\* token, job 2 is on the host of job 1 and job 3 on another host; the portal
\* that rejects every token is asked for job 1 alone
InitMixed ==
  /\ \E r \in BOOLEAN :
       cfg = [max_concurrent |-> 1, max_chunks |-> MaxChunks,
              enable_resume |-> r, enable_chunked |-> TRUE]
  /\ \E srv \in {Gone, Refused, Expired} :
       jobs = [j \in Jobs |->
                 JobOf(srv # Expired \/ j = 1, PoolUrl(j), BlockSize,
                       IF j = 1 THEN srv ELSE IF j = 2 THEN Ranged ELSE Plain)]
  /\ parts = DiskClean.parts
  /\ dest = DiskClean.dest
  /\ statefile = DiskClean.statefile
  /\ faults = 0
  /\ InitEngine

Init ==
  \/ InitFile({2}, BOOLEAN, {Ranged, Plain}, {DiskClean, DiskLeftover}, MaxFaults)
  \/ InitFile({2}, {TRUE}, {Sloppy}, {DiskClean}, MaxFaults)
  \/ InitFile({1, 2}, {TRUE}, {Gone, Refused}, {DiskClean}, 0)
  \/ InitPool(0)
  \/ InitMixed

\* the same, one download that may meet one fault more, one that resumes
\* behind a complete chunk, one from a server that ignores Range headers,
\* one whose destination holds an older file (the block 0, which no server
\* sends) and one into a directory that cannot be written
InitRetry ==
  \/ Init
  \/ InitFile({2}, {TRUE}, {Ranged}, {DiskClean}, MaxFaults + 1)
  \/ InitFile({2}, {TRUE}, {Ranged}, {DiskChunkDone}, 0)
  \/ InitFile({2}, BOOLEAN, {Deaf}, {DiskClean}, 0)
  \/ InitFile({2}, BOOLEAN, {Refused}, {[DiskClean EXCEPT !.dest[1] = <<0>>]}, 0)
  \/ /\ cfg = [max_concurrent |-> 2, max_chunks |-> MaxChunks,
               enable_resume |-> TRUE, enable_chunked |-> TRUE]
     /\ jobs = [j \in Jobs |->
                 [JobOf(j = 1, FileUrl, MiB, Ranged) EXCEPT !.writable = FALSE]]
     /\ parts = DiskClean.parts
     /\ dest = DiskClean.dest
     /\ statefile = DiskClean.statefile
     /\ faults = 0
     /\ InitEngine

-----------------------------------------------------------------------------
(* Entering ConnectionPool.acquire *)

\* coroutines suspended in the first and in the second await of acquire
GlobalWaitersIn(tf) ==
  (\E id \in TaskIds : tf[id].pc = "acq_g") \/ (\E j \in Jobs : job[j].pc = "head_g")

HostWaitersIn(tf, h) ==
  \/ \E id \in TaskIds : tf[id].pc = "acq_h" /\ get_host(tf[id].url) = h
  \/ \E j \in Jobs : job[j].pc = "head_h" /\ get_host(job[j].url) = h

GlobalWaiters == GlobalWaitersIn(task)

HostWaiters(h) == HostWaitersIn(task, h)

\* a semaphore with a free permit and no waiter is taken without suspending;
\* with waiters the caller may pass them or queue behind them
Eager(waiters) == IF waiters THEN BOOLEAN ELSE {TRUE}

\* acquire from its second await on: [pool, pc], pc the place the caller is
\* left at ("acq_h" suspended, "get" holding a slot)
AcquireFromHost(p, url, eh) ==
  IF CanAcquireHost(p, url) /\ eh
  THEN [pool |-> AcquireHost(p, url), pc |-> "get"]
  ELSE [pool |-> p, pc |-> "acq_h"]

\* ConnectionPool.acquire called on pool p
acquire(p, url, eg, eh) ==
  IF CanAcquireGlobal(p) /\ eg
  THEN AcquireFromHost(AcquireGlobal(p), url, eh)
  ELSE [pool |-> p, pc |-> "acq_g"]

JobPc(pc) == IF pc = "acq_g" THEN "head_g" ELSE IF pc = "acq_h" THEN "head_h" ELSE "head"

-----------------------------------------------------------------------------
(* AsyncDownloader._download_chunk, up to its first await *)

\* lines 112-127: bytes_downloaded, retries, the ActiveDownload entry, file_mode
BeginRecord(tk, j, c) ==
  [tk EXCEPT !.bytes_downloaded = tk.resume_from,
             !.retries = 0,
             !.file_mode = IF tk.resume_from > 0 /\ parts[<<j, c>>] # NoFile
                           THEN "ab" ELSE "wb"]

BeginActive(ad, tk, j, c) ==
  DictSet(ad, Key(j, c),
          [bytes_downloaded |-> tk.resume_from,
           total_size |-> IF tk.end # None /\ tk.start # None
                          THEN tk.end - tk.start + 1 ELSE tk.total_size])

-----------------------------------------------------------------------------
(* AsyncDownloader.download_file *)

\* lines 321-336, the top of the retry loop: authenticate when the URL carries
\* a play_token, else enter acquire for the HEAD request
LoopTop(j, jb) ==
  IF jb.url.token > 0
  THEN /\ job' = [job EXCEPT ![j] = [jb EXCEPT !.pc = "auth"]]
       /\ UNCHANGED pool
  ELSE \E eg \in Eager(GlobalWaiters), eh \in Eager(HostWaiters(get_host(jb.url))) :
         LET a == acquire(pool, jb.url, eg, eh)
         IN /\ job' = [job EXCEPT ![j] = [jb EXCEPT !.pc = JobPc(a.pc)]]
            /\ pool' = a.pool

\* a job's backoff without growth
ConstantBackoff(retries) == 2

\* line 449: the seconds of the sleep before the next attempt
BackoffSeconds(retries) == 2 ^ retries

\* the except clause, up to its raise or to the await of the backoff sleep
JobExcept(j, jb, tf) ==
  /\ parts' = IF cfg.enable_resume THEN parts
              ELSE [k \in DOMAIN parts |->
                      IF k[1] = j /\ k[2] < cfg.max_chunks THEN NoFile ELSE parts[k]]
  /\ dest' = IF cfg.enable_resume THEN dest ELSE [dest EXCEPT ![j] = NoFile]
  /\ task' = IF cfg.enable_resume THEN tf
             ELSE Detach(tf, j, {"part", "dest"}, 0 .. (cfg.max_chunks - 1))
  /\ job' = [job EXCEPT ![j] =
               IF jb.retries >= retry_count - 1
               THEN [jb EXCEPT !.pc = "failed"]
               ELSE [jb EXCEPT !.retries = @ + 1, !.pc = "sleep",
                               !.sleep_time = BackoffSeconds(jb.retries + 1)]]

\* lines 312-319
JobStart(j) ==
  /\ engine = "run" /\ job[j].pc = "start"
  /\ UNCHANGED units
  /\ LoopTop(j, [job[j] EXCEPT !.resume_state =
                   IF cfg.enable_resume THEN load_state(j) ELSE NoState])
  /\ UNCHANGED <<cfg, jobs, faults, engine, active_downloads, task,
                 parts, dest, statefile>>

\* lines 324-336
JobAuth(j) ==
  /\ engine = "run" /\ job[j].pc = "auth"
  /\ UNCHANGED units
  /\ \E u \in authenticate(job[j].url), eg \in Eager(GlobalWaiters),
        eh \in Eager(HostWaiters(get_host(job[j].url))) :
       LET a == acquire(pool, u, eg, eh)
       IN /\ job' = [job EXCEPT ![j].url = u, ![j].pc = JobPc(a.pc)]
          /\ pool' = a.pool
  /\ UNCHANGED <<cfg, jobs, faults, engine, active_downloads, task,
                 parts, dest, statefile>>

\* line 336, a waiter of the global semaphore is served
JobAcquireGlobal(j) ==
  /\ engine = "run" /\ job[j].pc = "head_g"
  /\ UNCHANGED units
  /\ CanAcquireGlobal(pool)
  /\ \E eh \in Eager(HostWaiters(get_host(job[j].url))) :
       LET a == AcquireFromHost(AcquireGlobal(pool), job[j].url, eh)
       IN /\ pool' = a.pool
          /\ job' = [job EXCEPT ![j].pc = JobPc(a.pc)]
  /\ UNCHANGED <<cfg, jobs, faults, engine, active_downloads, task,
                 parts, dest, statefile>>

\* line 336, a waiter of the host semaphore is served; the HEAD request is sent
JobAcquireHost(j) ==
  /\ engine = "run" /\ job[j].pc = "head_h"
  /\ UNCHANGED units
  /\ CanAcquireHost(pool, job[j].url)
  /\ pool' = AcquireHost(pool, job[j].url)
  /\ job' = [job EXCEPT ![j].pc = "head"]
  /\ UNCHANGED <<cfg, jobs, faults, engine, active_downloads, task,
                 parts, dest, statefile>>

\* lines 363-384: one task per chunk of the plan
ChunkTasks(tf, j, jb, file_size) ==
  LET chunks == calculate_optimal_chunks(file_size, cfg.max_chunks)
      rs == jb.resume_state
      downloaded_chunks ==
        IF rs # NoState /\ rs.total_size = file_size /\ rs.url = jb.url
        THEN rs.downloaded_chunks ELSE EmptyDict
  IN [id \in DOMAIN tf |->
        IF id[1] = j /\ id[2] = jb.retries + 1 /\ id[3] < Len(chunks)
        THEN [NoTask EXCEPT !.pc = "begin", !.url = jb.url,
                            !.start = chunks[id[3] + 1][1],
                            !.end = chunks[id[3] + 1][2],
                            !.total_size = file_size,
                            !.resume_from = DictGet(downloaded_chunks, id[3], 0)]
        ELSE tf[id]]

RECURSIVE StartChunks(_, _, _, _, _, _, _)

\* line 387: download_file suspends in gather and the new tasks run, in the
\* order of their creation, each up to its first suspension; st holds the
\* tasks, the pool and the ActiveDownload entries, c is the next chunk of n
StartChunks(st, j, attempt, c, n, eg, eh) ==
  IF c >= n THEN st
  ELSE LET id == <<j, attempt, c>>
           tk == st.task[id]
           a == acquire(st.pool, tk.url, eg \/ ~GlobalWaitersIn(st.task),
                        eh \/ ~HostWaitersIn(st.task, get_host(tk.url)))
       IN StartChunks([task |-> [st.task EXCEPT ![id] =
                                   [BeginRecord(tk, j, c) EXCEPT !.pc = a.pc]],
                       pool |-> a.pool,
                       active_downloads |-> BeginActive(st.active_downloads, tk, j, c)],
                      j, attempt, c + 1, n, eg, eh)

\* lines 363-387
SpawnChunks(p, j, jb, file_size, eg, eh) ==
  StartChunks([task |-> ChunkTasks(task, j, jb, file_size), pool |-> p,
               active_downloads |-> active_downloads],
              j, jb.retries + 1, 0,
              Len(calculate_optimal_chunks(file_size, cfg.max_chunks)), eg, eh)

\* lines 404-417: the arguments of the single-chunk call
SingleTask(j, jb) ==
  LET rs == jb.resume_state
      resume_from == IF rs # NoState /\ parts[<<j, 0>>] # NoFile
                     THEN getsize(parts[<<j, 0>>]) ELSE 0
  IN [NoTask EXCEPT !.url = jb.url, !.resume_from = resume_from]

\* what the server may answer to a HEAD: 200 with its headers, another status
\* ("bad"), or a transport error
HeadReplies(j) ==
  IF ~jobs[j].head_ok THEN {"bad"}
  ELSE {"ok"} \cup (IF faults > 0 THEN {"bad", "error"} ELSE {})

\* lines 338-417: the HEAD reply, the release, the choice of strategy; the
\* single-chunk call runs up to its first suspension
JobHead(j) ==
  /\ engine = "run" /\ job[j].pc = "head"
  /\ UNCHANGED units
  /\ \E reply \in HeadReplies(j) :
       LET jb == job[j]
           file_size == IF reply = "ok" THEN jobs[j].size ELSE 0
           supports_range == reply = "ok" /\ jobs[j].accept_ranges
           id0 == <<j, jb.retries + 1, 0>>
           released == Release(pool, jb.url)
       IN /\ faults' = IF reply = "ok" \/ ~jobs[j].head_ok THEN faults ELSE faults - 1
          /\ IF reply = "error"
             THEN /\ JobExcept(j, jb, task)
                  /\ pool' = released
                  /\ UNCHANGED active_downloads
             ELSE IF cfg.enable_chunked /\ supports_range /\ file_size > 0
             THEN /\ \E eg \in BOOLEAN, eh \in BOOLEAN :
                       LET st == SpawnChunks(released, j, jb, file_size, eg, eh)
                       IN /\ task' = st.task
                          /\ pool' = st.pool
                          /\ active_downloads' = st.active_downloads
                  /\ job' = [job EXCEPT ![j].pc = "gather",
                                        ![j].file_size = file_size,
                                        ![j].nchunks =
                                          Len(calculate_optimal_chunks(file_size, cfg.max_chunks))]
                  /\ UNCHANGED <<parts, dest>>
             ELSE \E eg \in Eager(GlobalWaiters), eh \in Eager(HostWaiters(get_host(jb.url))) :
                    LET a == acquire(released, jb.url, eg, eh)
                    IN /\ task' = [task EXCEPT ![id0] =
                                     [BeginRecord(SingleTask(j, jb), j, 0) EXCEPT !.pc = a.pc]]
                       /\ pool' = a.pool
                       /\ active_downloads' =
                            BeginActive(active_downloads, SingleTask(j, jb), j, 0)
                       /\ job' = [job EXCEPT ![j].pc = "inline",
                                             ![j].file_size = file_size,
                                             ![j].nchunks = 1]
                       /\ UNCHANGED <<parts, dest>>
  /\ UNCHANGED <<cfg, jobs, engine, statefile>>

\* line 387: gather returns once every task of the attempt has returned;
\* _merge_chunks opens the destination
GatherDone(j) ==
  /\ engine = "run" /\ job[j].pc = "gather"
  /\ UNCHANGED units
  /\ \A c \in 0 .. (job[j].nchunks - 1) : task[<<j, Attempt(j), c>>].pc = "done"
  /\ dest' = [dest EXCEPT ![j] = <<>>]
  /\ job' = [job EXCEPT ![j].pc = "merge", ![j].merged = 0]
  /\ UNCHANGED <<cfg, jobs, faults, engine, pool, active_downloads, task,
                 parts, statefile>>

\* line 387: gather raises as soon as one task of the attempt has raised;
\* the other tasks keep running
GatherRaise(j) ==
  /\ engine = "run" /\ job[j].pc = "gather"
  /\ UNCHANGED units
  /\ \E c \in 0 .. (job[j].nchunks - 1) : task[<<j, Attempt(j), c>>].pc = "failed"
  /\ JobExcept(j, job[j], task)
  /\ UNCHANGED <<cfg, jobs, faults, engine, pool, active_downloads, statefile>>

\* _merge_chunks, one part file; after the last one lines 392-394 and 428
MergePart(j) ==
  /\ engine = "run" /\ job[j].pc = "merge"
  /\ UNCHANGED units
  /\ LET i == job[j].merged
         last == i + 1 = job[j].nchunks
     IN /\ IF parts[<<j, i>>] # NoFile
           THEN /\ dest' = [dest EXCEPT ![j] = @ \o parts[<<j, i>>]]
                /\ parts' = [parts EXCEPT ![<<j, i>>] = NoFile]
                /\ task' = Detach(task, j, {"part"}, {i})
           ELSE UNCHANGED <<dest, parts, task>>
        /\ job' = [job EXCEPT ![j].merged = i + 1,
                              ![j].pc = IF last THEN "done" ELSE "merge"]
        /\ statefile' = IF last /\ cfg.enable_resume
                        THEN clear_state(statefile, j) ELSE statefile
  /\ UNCHANGED <<cfg, jobs, faults, engine, pool, active_downloads>>

\* lines 419-428: the single-chunk call returned
InlineDone(j) ==
  /\ engine = "run" /\ job[j].pc = "inline"
  /\ UNCHANGED units
  /\ task[<<j, Attempt(j), 0>>].pc = "done"
  /\ IF parts[<<j, 0>>] # NoFile
     THEN /\ dest' = [dest EXCEPT ![j] = parts[<<j, 0>>]]
          /\ parts' = [parts EXCEPT ![<<j, 0>>] = NoFile]
          /\ task' = [id \in DOMAIN task |->
                        IF id[1] = j /\ task[id].pc = "stream"
                        THEN IF task[id].handle = "dest"
                             THEN [task[id] EXCEPT !.handle = "gone"]
                             ELSE IF task[id].handle = "part" /\ id[3] = 0
                             THEN [task[id] EXCEPT !.handle = "dest"]
                             ELSE task[id]
                        ELSE task[id]]
     ELSE UNCHANGED <<dest, parts, task>>
  /\ statefile' = IF cfg.enable_resume THEN clear_state(statefile, j) ELSE statefile
  /\ job' = [job EXCEPT ![j].pc = "done"]
  /\ UNCHANGED <<cfg, jobs, faults, engine, pool, active_downloads>>

\* lines 412, 430: the single-chunk call raised
InlineRaise(j) ==
  /\ engine = "run" /\ job[j].pc = "inline"
  /\ UNCHANGED units
  /\ task[<<j, Attempt(j), 0>>].pc = "failed"
  /\ JobExcept(j, job[j], task)
  /\ UNCHANGED <<cfg, jobs, faults, engine, pool, active_downloads, statefile>>

\* lines 449-452 and 321: the backoff sleep ends, handle_server_error is
\* called, next attempt
JobWake(j) ==
  /\ engine = "run" /\ job[j].pc = "sleep"
  /\ UNCHANGED units
  /\ LoopTop(j, [job[j] EXCEPT !.signalled = @ + 1])
  /\ UNCHANGED <<cfg, jobs, faults, engine, active_downloads, task,
                 parts, dest, statefile>>

-----------------------------------------------------------------------------
(* AsyncDownloader._download_chunk *)

\* line 131, a waiter of the global semaphore is served
TaskAcquireGlobal(id) ==
  /\ engine = "run" /\ task[id].pc = "acq_g"
  /\ UNCHANGED units
  /\ CanAcquireGlobal(pool)
  /\ \E eh \in Eager(HostWaiters(get_host(task[id].url))) :
       LET a == AcquireFromHost(AcquireGlobal(pool), task[id].url, eh)
       IN /\ pool' = a.pool
          /\ task' = [task EXCEPT ![id].pc = a.pc]
  /\ UNCHANGED <<cfg, jobs, faults, engine, active_downloads, job,
                 parts, dest, statefile>>

\* line 131, a waiter of the host semaphore is served; lines 133-155, the GET
\* is sent
TaskAcquireHost(id) ==
  /\ engine = "run" /\ task[id].pc = "acq_h"
  /\ UNCHANGED units
  /\ CanAcquireHost(pool, task[id].url)
  /\ pool' = AcquireHost(pool, task[id].url)
  /\ task' = [task EXCEPT ![id].pc = "get"]
  /\ UNCHANGED <<cfg, jobs, faults, engine, active_downloads, job,
                 parts, dest, statefile>>

\* lines 141-149: the Range header
HasRange(tk) == tk.start # None \/ tk.resume_from > 0

FirstByte(tk) == IF tk.start # None THEN tk.start + tk.resume_from ELSE tk.resume_from

LastByte(tk, size) == IF tk.start # None /\ tk.end # None THEN tk.end ELSE size - 1

Prefixes(body) == {SubSeq(body, 1, n) : n \in 0 .. (Len(body) - 1)}

\* what the server of job j may answer to the GET of tk: status 0 is a
\* transport error; a fault is an answer a healthy server does not give
Healthy(j, tk) ==
  LET size == jobs[j].size
      full == [status |-> 200, body |-> BlocksOf(0, size - 1), fault |-> FALSE]
      none == [status |-> 416, body |-> <<>>, fault |-> FALSE]
  IN IF HasRange(tk) /\ jobs[j].honours_range
     THEN IF FirstByte(tk) >= size THEN {none}
          ELSE IF FirstByte(tk) > LastByte(tk, size) THEN {none, full}
          ELSE {[status |-> 206, fault |-> FALSE,
                 body |-> BlocksOf(FirstByte(tk),
                                   IF LastByte(tk, size) < size - 1
                                   THEN LastByte(tk, size) ELSE size - 1)]}
     ELSE {full}

Wrong(j, tk) ==
  {[status |-> 200, body |-> BlocksOf(0, jobs[j].size - 1), fault |-> TRUE] :
          r \in {h \in Healthy(j, tk) : h.status = 206}}
  \cup {[status |-> r[1].status, body |-> r[2], fault |-> TRUE] :
          r \in UNION {{<<h, b>> : b \in Prefixes(h.body)} : h \in Healthy(j, tk)}}

Faulty(j, tk) ==
  {[status |-> st, body |-> <<>>, fault |-> TRUE] : st \in {0, 500, 458}}
  \cup (IF jobs[j].exact THEN {} ELSE Wrong(j, tk))

\* a server that does not serve the file answers 404, or 458 to every token
Replies(j, tk) ==
  IF ~jobs[j].get_ok
  THEN {[status |-> jobs[j].get_status, body |-> <<>>, fault |-> FALSE]}
  ELSE Healthy(j, tk) \cup (IF faults > 0 THEN Faulty(j, tk) ELSE {})

\* a backoff that forgets the failure it follows
ForgetfulBackoff(tk) ==
  [tk EXCEPT !.pc = "backoff", !.retries = 0, !.body = <<>>, !.fpos = 0,
             !.handle = "none", !.late = FALSE]

\* the coroutine waits in the backoff sleep, its response and file closed
Backoff(tk) ==
  [tk EXCEPT !.pc = "backoff", !.body = <<>>, !.fpos = 0, !.handle = "none",
             !.late = FALSE]

\* lines 266-282: the except clause with the locals tkx and the part files
\* ps, up to the await of the backoff sleep, or to the raise and the release
\* of the finally clause
ChunkExcept(id, tkx, tf, ps) ==
  LET k == <<id[1], id[3]>>
      removed == ~cfg.enable_resume /\ ps[k] # NoFile
      tf1 == IF removed THEN Detach(tf, id[1], {"part"}, {id[3]}) ELSE tf
      last == tkx.retries >= retry_count - 1
  IN /\ parts' = IF removed THEN [ps EXCEPT ![k] = NoFile] ELSE ps
     /\ task' = [tf1 EXCEPT ![id] =
                   IF last THEN Finished(tkx, "failed")
                   ELSE Backoff([tkx EXCEPT !.retries = @ + 1,
                                            !.sleep_time = 2 * (tkx.retries + 1)])]
     /\ pool' = IF last THEN Release(pool, tkx.url) ELSE pool

\* a fetcher that treats a 458 on its last attempt like one on an earlier
\* attempt
AlwaysRefresh(tk) == TRUE

\* line 156: a 458 is answered with a token refresh on every attempt but the
\* last
CanRefresh(tk) == tk.retries < retry_count - 1

\* lines 155-192: the response arrives; 458, the range check, the status
\* check, the part file is opened
TaskResponse(id) ==
  /\ engine = "run" /\ task[id].pc = "get"
  /\ UNCHANGED units
  /\ LET j == id[1]
         c == id[3]
     IN \E r \in Replies(j, task[id]) :
          /\ faults' = IF r.fault THEN faults - 1 ELSE faults
          /\ IF r.status = 0
             THEN ChunkExcept(id, [task[id] EXCEPT !.gets = @ + 1], task, parts)
             ELSE LET tk == [task[id] EXCEPT !.gets = @ + 1, !.status = r.status] IN
                  IF r.status = 458 /\ CanRefresh(tk)
             THEN /\ \E u \in authenticate(tk.url) :
                       task' = [task EXCEPT ![id] =
                                  Backoff([tk EXCEPT !.url = u, !.retries = @ + 1,
                                                     !.sleep_time = 2])]
                  /\ UNCHANGED <<pool, parts>>
             ELSE LET mismatch == HasRange(tk) /\ r.status # 206
                      tk1 == IF mismatch /\ c = 0 /\ tk.resume_from > 0
                             THEN [tk EXCEPT !.bytes_downloaded = 0, !.file_mode = "wb"]
                             ELSE tk
                      tk2 == [tk1 EXCEPT !.signalled = ~(mismatch /\ c # 0)]
                  IN IF (mismatch /\ c # 0) \/ r.status \notin {200, 206}
                     THEN ChunkExcept(id, tk2, task, parts)
                     ELSE IF ~jobs[j].writable
                     THEN ChunkExcept(id, tk1, task, parts)
                     ELSE /\ parts' = [parts EXCEPT ![<<j, c>>] =
                                         IF tk1.file_mode = "wb" \/ @ = NoFile
                                         THEN <<>> ELSE @]
                          /\ task' = [task EXCEPT ![id] =
                                        [tk1 EXCEPT !.pc = "stream", !.body = r.body,
                                                    !.fpos = 0, !.handle = "part",
                                                    !.late = FALSE]]
                          /\ UNCHANGED pool
  /\ UNCHANGED <<cfg, jobs, engine, active_downloads, job, dest, statefile>>

\* lines 193-225: one block of the body is written; late says that 5 s have
\* passed since last_save_state
TaskStreamBlock(id) ==
  /\ engine = "run" /\ task[id].pc = "stream" /\ task[id].body # <<>>
  /\ UNCHANGED units
  /\ LET j == id[1]
         c == id[3]
         tk == task[id]
         b == Head(tk.body)
         ps == IF tk.handle = "part"
               THEN [parts EXCEPT ![<<j, c>>] = WriteBlock(@, tk.file_mode, tk.fpos, b)]
               ELSE parts
         tk1 == [tk EXCEPT !.bytes_downloaded = @ + BlockSize, !.body = Tail(@),
                           !.fpos = @ + 1]
     IN /\ dest' = IF tk.handle = "dest"
                   THEN [dest EXCEPT ![j] = WriteBlock(@, tk.file_mode, tk.fpos, b)]
                   ELSE dest
        /\ IF Key(j, c) \notin DOMAIN active_downloads
           THEN /\ ChunkExcept(id, tk1, task, ps)
                /\ UNCHANGED active_downloads
           ELSE /\ active_downloads' =
                     [active_downloads EXCEPT ![Key(j, c)].bytes_downloaded =
                                                 tk1.bytes_downloaded]
                /\ \E now \in (IF cfg.enable_resume THEN BOOLEAN ELSE {FALSE}) :
                     LET late == tk.late \/ now
                     IN IF cfg.enable_resume /\ late
                           /\ PathOf(j) \in DOMAIN active_downloads
                        THEN ChunkExcept(id, [tk1 EXCEPT !.late = late], task, ps)
                        ELSE /\ task' = [task EXCEPT ![id] = [tk1 EXCEPT !.late = late]]
                             /\ parts' = ps
                             /\ UNCHANGED pool
  /\ UNCHANGED <<cfg, jobs, faults, engine, job, statefile>>

\* lines 259-264 and 282: the body ended, the fetch returns bytes_downloaded
TaskStreamEnd(id) ==
  /\ engine = "run" /\ task[id].pc = "stream" /\ task[id].body = <<>>
  /\ UNCHANGED units
  /\ active_downloads' = DictDel(active_downloads, Key(id[1], id[3]))
  /\ task' = [task EXCEPT ![id] = Finished(@, "done")]
  /\ pool' = Release(pool, task[id].url)
  /\ UNCHANGED <<cfg, jobs, faults, engine, job, parts, dest, statefile>>

\* a transport error while the body is read
TaskStreamError(id) ==
  /\ engine = "run" /\ task[id].pc = "stream" /\ task[id].body # <<>>
  /\ UNCHANGED units
  /\ faults > 0
  /\ faults' = faults - 1
  /\ ChunkExcept(id, task[id], task, parts)
  /\ UNCHANGED <<cfg, jobs, engine, active_downloads, job, dest, statefile>>

\* lines 160-161 and 280-282, 129: the sleep ends, the finally clause
\* releases, the loop goes on
TaskWake(id) ==
  /\ engine = "run" /\ task[id].pc = "backoff"
  /\ UNCHANGED units
  /\ IF task[id].retries < retry_count
     THEN \E eg \in Eager(GlobalWaiters),
             eh \in Eager(HostWaiters(get_host(task[id].url))) :
            LET a == acquire(Release(pool, task[id].url), task[id].url, eg, eh)
            IN /\ pool' = a.pool
               /\ task' = [task EXCEPT ![id] = [@ EXCEPT !.pc = a.pc,
                                                        !.status = None,
                                                        !.signalled = FALSE,
                                                        !.sleep_time = 0]]
     ELSE /\ pool' = Release(pool, task[id].url)
          /\ task' = [task EXCEPT ![id] = Finished(@, "done")]
  /\ UNCHANGED <<cfg, jobs, faults, engine, active_downloads, job,
                 parts, dest, statefile>>

-----------------------------------------------------------------------------
(* DownloadManager.start_downloads *)

RECURSIVE ReleaseAll(_, _, _)

ReleaseAll(p, tf, ids) ==
  IF ids = {} THEN p
  ELSE LET id == CHOOSE x \in ids : TRUE
       IN ReleaseAll(Release(p, tf[id].url), tf, ids \ {id})

\* a cancelled coroutine that entered the try of _download_chunk runs its
\* finally clause
RunsFinally(tk) == tk.pc \in {"acq_g", "acq_h", "get", "stream", "backoff"}

\* a gather that ends with the first download_file that raises
FirstFailureEnds ==
  \/ \A j \in Jobs : job[j].pc \in {"idle", "done", "failed"}
  \/ \E j \in Jobs : job[j].pc = "failed"

\* line 533, gather(*tasks, return_exceptions=True): every download_file of
\* the batch has returned or raised
BatchOver == \A j \in Jobs : job[j].pc \in {"idle", "done", "failed"}

\* what start_downloads hands to its caller: the list gather returns (line
\* 533) is not bound to a name, run_downloads and run_async_downloads return
\* nothing, the future of executor.submit (line 541) is dropped and
\* start_downloads has no return statement
start_downloads == None

\* lines 526-539: every download_file has ended; the session is closed and
\* asyncio.run cancels the tasks that are left
Shutdown ==
  /\ engine = "run"
  /\ UNCHANGED units
  /\ BatchOver
  /\ engine' = "stopped"
  /\ pool' = ReleaseAll(pool, task, {id \in TaskIds : RunsFinally(task[id])})
  /\ task' = [id \in TaskIds |->
                IF Live(task[id]) THEN Finished(task[id], "cancelled") ELSE task[id]]
  /\ UNCHANGED <<cfg, jobs, faults, active_downloads, job, parts, dest, statefile>>

\* the process is stopped at any point and the same downloads are started
\* again by a new engine; the disk is what is left
Restart ==
  /\ faults > 0
  /\ UNCHANGED units
  /\ faults' = faults - 1
  /\ engine' = "run"
  /\ pool' = NewEngine(cfg)
  /\ active_downloads' = EmptyDict
  /\ task' = [id \in TaskIds |-> NoTask]
  /\ job' = [j \in Jobs |->
               IF jobs[j].on THEN [NoJob EXCEPT !.pc = "start", !.url = jobs[j].url]
               ELSE NoJob]
  /\ UNCHANGED <<cfg, jobs, parts, dest, statefile>>

-----------------------------------------------------------------------------
Next ==
  \/ \E j \in Jobs :
       \/ JobStart(j)
       \/ JobAuth(j)
       \/ JobAcquireGlobal(j)
       \/ JobAcquireHost(j)
       \/ JobHead(j)
       \/ GatherDone(j)
       \/ GatherRaise(j)
       \/ MergePart(j)
       \/ InlineDone(j)
       \/ InlineRaise(j)
       \/ JobWake(j)
  \/ \E id \in TaskIds :
       \/ TaskAcquireGlobal(id)
       \/ TaskAcquireHost(id)
       \/ TaskResponse(id)
       \/ TaskStreamBlock(id)
       \/ TaskStreamEnd(id)
       \/ TaskStreamError(id)
       \/ TaskWake(id)
  \/ Shutdown
  \/ Restart

Spec == Init /\ [][Next]_vars

SpecRetry == InitRetry /\ [][Next]_vars

\* one job of one block, which is planned as a single chunk
InitSmall(servers) ==
  /\ cfg = [max_concurrent |-> 1, max_chunks |-> MaxChunks,
            enable_resume |-> TRUE, enable_chunked |-> TRUE]
  /\ \E srv \in servers :
       jobs = [j \in Jobs |-> JobOf(j = 1, FileUrl, BlockSize, srv)]
  /\ parts = DiskClean.parts
  /\ dest = DiskClean.dest
  /\ statefile = DiskClean.statefile
  /\ faults = 0
  /\ InitEngine

\* downloads that meet at most one fault, a server without the file, a
\* server that refuses the GET of a small file, and the three jobs on two hosts
InitFair ==
  \/ InitFile({1, 2}, {TRUE}, {Ranged}, {DiskClean}, 1)
  \/ InitFile({1}, {TRUE}, {Gone}, {DiskClean}, 0)
  \/ InitSmall({Refused})
  \/ InitPool(0)

\* the steps of download_file for job j
JobStep(j) ==
  \/ JobStart(j) \/ JobAuth(j) \/ JobAcquireGlobal(j) \/ JobAcquireHost(j)
  \/ JobHead(j) \/ GatherDone(j) \/ GatherRaise(j) \/ MergePart(j)
  \/ InlineDone(j) \/ InlineRaise(j) \/ JobWake(j)

\* the steps of one _download_chunk task
TaskStep(id) ==
  \/ TaskAcquireGlobal(id) \/ TaskAcquireHost(id) \/ TaskResponse(id)
  \/ TaskStreamBlock(id) \/ TaskStreamEnd(id) \/ TaskStreamError(id)
  \/ TaskWake(id)

\* a step of the program
Run == (\E j \in Jobs : JobStep(j)) \/ (\E id \in TaskIds : TaskStep(id)) \/ Shutdown

\* while a coroutine is ready, a request is pending or a sleep is running,
\* the event loop takes a step; the process is not bound to be killed
SpecFair == InitFair /\ [][Next]_vars /\ WF_vars(Run)

-----------------------------------------------------------------------------
(* DownloadOptimizer.apply_rate_limit and its callers in _download_chunk *)
(*                                                                         *)
(* time.time() counts ticks of 1/16 s.   The server delivers every read at *)
(* once and a sleep ends at its time, so that the clock moves only when    *)
(* every caller sleeps: the fastest transfer the bucket lets pass.  No     *)
(* reply is an error, so backoff_factors[url] stays 1.0.                   *)

TicksPerSecond == 16

\* the engine with nothing to download
InitStill ==
  /\ cfg = [max_concurrent |-> 1, max_chunks |-> MaxChunks,
            enable_resume |-> FALSE, enable_chunked |-> TRUE]
  /\ jobs = [j \in Jobs |-> JobOf(FALSE, NoUrl, 0, Gone)]
  /\ parts = DiskClean.parts
  /\ dest = DiskClean.dest
  /\ statefile = DiskClean.statefile
  /\ faults = 0
  /\ engine = "run"
  /\ pool = NewEngine(cfg)
  /\ active_downloads = EmptyDict
  /\ task = [id \in TaskIds |-> NoTask]
  /\ job = [j \in Jobs |-> NoJob]

\* one call, up to its return or its sleep (sleep_time in ticks; jitter is
\* random.uniform(0, 0.1) in hundredths)
apply_rate_limit(o, current_time, bytes_to_download, jitter) ==
  IF ~o.known
  THEN [optimizer |-> [o EXCEPT !.known = TRUE,
                                !.rate_limit_tokens = bytes_to_download,
                                !.last_token_update = current_time],
        sleep_time |-> 0]
  ELSE LET time_elapsed == current_time - o.last_token_update
           effective_limit == o.max_speed_limit
           tokens_to_add == (time_elapsed * effective_limit) \div TicksPerSecond
           tokens == IF o.rate_limit_tokens + tokens_to_add < max_chunk_size * 2
                     THEN o.rate_limit_tokens + tokens_to_add
                     ELSE max_chunk_size * 2
           refilled == [o EXCEPT !.rate_limit_tokens = tokens,
                                 !.last_token_update = current_time]
           deficit == bytes_to_download - tokens
           sleep_time == (deficit * TicksPerSecond) \div effective_limit
       IN IF bytes_to_download > tokens
          THEN [optimizer |-> refilled,
                sleep_time |-> sleep_time + (sleep_time * jitter) \div 100]
          ELSE [optimizer |-> [refilled EXCEPT !.rate_limit_tokens =
                                                 @ - bytes_to_download],
                sleep_time |-> 0]

\* the chunks of one file: n fetchers share its reads, the last one takes
\* the remainder
ReadsOf(f, n, reads) ==
  IF f > n THEN 0
  ELSE IF f = n THEN reads - (n - 1) * (reads \div n)
  ELSE reads \div n

\* a file of 1 MiB under a limit of 64 KiB/s, fetched in one or in several
\* chunks, or a file of 4 MiB under a limit of 1 MiB/s, fetched in one chunk
Transfers ==
  {[max_speed_limit |-> ReadSize, file_size |-> MiB, fetchers |-> n] :
     n \in Fetchers}
  \cup {[max_speed_limit |-> MiB, file_size |-> 4 * MiB, fetchers |-> 1]}

InitRate ==
  /\ InitStill
  /\ clock = 0
  /\ plan = NoPlan
  /\ store = NoStore
  /\ backoff_factors = NoFactors
  /\ state_dir = NoDir
  /\ ui = NoReader
  /\ \E tr \in Transfers :
       /\ optimizer = [NoBucket EXCEPT !.max_speed_limit = tr.max_speed_limit]
       /\ fetcher = [f \in Fetchers |->
                       IF f <= tr.fetchers
                       THEN [NoFetcher EXCEPT
                               !.pc = "call",
                               !.todo = ReadsOf(f, tr.fetchers,
                                                tr.file_size \div ReadSize)]
                       ELSE NoFetcher]

\* after apply_rate_limit: the next read of the body, or its end
AfterLimit(ft) == IF ft.reads < ft.todo THEN "read" ELSE "done"

\* lines 153 and 225: apply_rate_limit(url, chunk_size) up to its return or
\* to its sleep
FetcherLimit(f) ==
  /\ fetcher[f].pc = "call"
  /\ \E jitter \in {0, 10} :
       LET r == apply_rate_limit(optimizer, clock, ReadSize, jitter)
       IN /\ optimizer' = r.optimizer
          /\ fetcher' = [fetcher EXCEPT ![f] =
                           IF r.sleep_time > 0
                           THEN [@ EXCEPT !.pc = "sleep",
                                          !.wake_at = clock + r.sleep_time]
                           ELSE [@ EXCEPT !.pc = AfterLimit(fetcher[f])]]
  /\ UNCHANGED <<downloads, clock, plan, store, backoff_factors,
                 state_dir, ui>>

\* lines 110-111: the sleep is over
FetcherWake(f) ==
  /\ fetcher[f].pc = "sleep"
  /\ fetcher[f].wake_at <= clock
  /\ optimizer' = [optimizer EXCEPT !.rate_limit_tokens = 0]
  /\ fetcher' = [fetcher EXCEPT ![f] = [@ EXCEPT !.pc = AfterLimit(fetcher[f])]]
  /\ UNCHANGED <<downloads, clock, plan, store, backoff_factors,
                 state_dir, ui>>

\* lines 193-195: one read of chunk_size bytes is written
FetcherRead(f) ==
  /\ fetcher[f].pc = "read"
  /\ fetcher' = [fetcher EXCEPT ![f] = [@ EXCEPT !.pc = "call", !.reads = @ + 1]]
  /\ UNCHANGED <<downloads, clock, optimizer, plan, store, backoff_factors,
                 state_dir, ui>>

Sleepers == {f \in Fetchers : fetcher[f].pc = "sleep"}

\* every caller sleeps: time passes up to the first wake
Advance ==
  /\ Sleepers # {}
  /\ \A f \in Fetchers : fetcher[f].pc \in {"none", "sleep", "done"}
  /\ \A f \in Sleepers : fetcher[f].wake_at > clock
  /\ \E f \in Sleepers :
       /\ \A g \in Sleepers : fetcher[f].wake_at <= fetcher[g].wake_at
       /\ clock' = fetcher[f].wake_at
  /\ UNCHANGED <<downloads, optimizer, fetcher, plan, store, backoff_factors,
                 state_dir, ui>>

NextRate ==
  \/ \E f \in Fetchers :
       \/ FetcherLimit(f)
       \/ FetcherWake(f)
       \/ FetcherRead(f)
  \/ Advance

SpecRate == InitRate /\ [][NextRate]_vars

-----------------------------------------------------------------------------
(* DownloadState: save_state and load_state on the state file of one       *)
(* destination.   The file is a JSON text, a sequence of tokens: the       *)
(* braces and one token per member.   store.text is the text json.dump     *)
(* produces and store.len the number of its tokens that have reached the   *)
(* disk.   A dict key carries its Python type: <<"int", 0>> is the key 0   *)
(* and <<"str", 0>> is the key "0".                                        *)

\* the key str(i) of the int key i
str(k) == <<"str", k[2]>>

\* the arguments of save_state for a file of 1 MiB: the progress dict holds
\* any of the chunks, chunk i with i + 1 blocks written
StateRecords ==
  {[filepath |-> PathOf(1), url |-> FileUrl,
    downloaded_chunks |-> [k \in {<<"int", i>> : i \in C} |-> (k[2] + 1) * BlockSize],
    total_size |-> MiB, chunk_ranges |-> calculate_optimal_chunks(MiB, MaxChunks)] :
     C \in SUBSET ChunkIds}

\* a json.dump that writes no progress
DumpWithoutProgress(state, now) ==
  << <<"{">>, <<"filepath", state.filepath>>, <<"url", state.url>>,
     <<"downloaded_chunks", EmptyDict>>,
     <<"total_size", state.total_size>>, <<"chunk_ranges", state.chunk_ranges>>,
     <<"timestamp", now>>, <<"}">> >>

\* lines 37-48, json.dump(state, f): the keys of a JSON object are strings,
\* an int key is written as str(key); a tuple is written as an array
json_dump(state, now) ==
  << <<"{">>, <<"filepath", state.filepath>>, <<"url", state.url>>,
     <<"downloaded_chunks",
       [k \in {str(x) : x \in DOMAIN state.downloaded_chunks} |->
          state.downloaded_chunks[<<"int", k[2]>>]]>>,
     <<"total_size", state.total_size>>, <<"chunk_ranges", state.chunk_ranges>>,
     <<"timestamp", now>>, <<"}">> >>

\* what the state file holds
Content(st) == SubSeq(st.text, 1, st.len)

\* lines 50-75, load_state: no file, a text json.load rejects (it does not
\* end with the closing brace) and a text without a required key give None
load_file(st) ==
  LET text == Content(st)
      Member(k) == text[CHOOSE i \in 2 .. (Len(text) - 1) : text[i][1] = k][2]
  IN IF st.exists /\ Len(text) >= 2 /\ text[Len(text)] = <<"}">>
        /\ \A k \in {"filepath", "url", "downloaded_chunks", "total_size",
                     "chunk_ranges"} :
             \E i \in 2 .. (Len(text) - 1) : text[i][1] = k
     THEN [filepath |-> Member("filepath"), url |-> Member("url"),
           downloaded_chunks |-> Member("downloaded_chunks"),
           total_size |-> Member("total_size"),
           chunk_ranges |-> Member("chunk_ranges"),
           timestamp |-> Member("timestamp")]
     ELSE NoState

InitStore ==
  /\ InitStill
  /\ clock = 0
  /\ optimizer = NoBucket
  /\ fetcher = [f \in Fetchers |-> NoFetcher]
  /\ plan = NoPlan
  /\ backoff_factors = NoFactors
  /\ state_dir = NoDir
  /\ ui = NoReader
  /\ store = NoStore

\* line 47, open(state_path, 'w'): the file is created or truncated, and
\* json.dump starts to write into the buffer of the file object
StoreOpen ==
  /\ store.pc = "idle"
  /\ store.saves < MaxSaves
  /\ \E state \in StateRecords :
       store' = [store EXCEPT !.pc = "dump", !.exists = TRUE,
                              !.text = json_dump(state, store.saves + 1),
                              !.len = 0, !.had = store.exists,
                              !.before = Content(store), !.crashed = FALSE,
                              !.state = state, !.loaded = <<>>,
                              !.saves = @ + 1]
  /\ UNCHANGED <<downloads, clock, optimizer, fetcher, plan, backoff_factors,
                 state_dir, ui>>

\* a part of the buffer is written to the disk
StoreFlush ==
  /\ store.pc = "dump"
  /\ \E n \in (store.len + 1) .. (Len(store.text) - 1) :
       store' = [store EXCEPT !.len = n]
  /\ UNCHANGED <<downloads, clock, optimizer, fetcher, plan, backoff_factors,
                 state_dir, ui>>

\* line 48, the end of the with block: the rest is written, the file closed
StoreClose ==
  /\ store.pc = "dump"
  /\ store' = [store EXCEPT !.pc = "idle", !.len = Len(store.text)]
  /\ UNCHANGED <<downloads, clock, optimizer, fetcher, plan, backoff_factors,
                 state_dir, ui>>

\* the process dies inside save_state; the disk keeps what reached it
StoreCrash ==
  /\ store.pc = "dump"
  /\ store' = [store EXCEPT !.pc = "idle", !.crashed = TRUE]
  /\ UNCHANGED <<downloads, clock, optimizer, fetcher, plan, backoff_factors,
                 state_dir, ui>>

\* load_state(filepath)
StoreLoad ==
  /\ store.pc = "idle"
  /\ store.loaded = <<>>
  /\ store' = [store EXCEPT !.loaded = <<load_file(store)>>]
  /\ UNCHANGED <<downloads, clock, optimizer, fetcher, plan, backoff_factors,
                 state_dir, ui>>

NextStore == StoreOpen \/ StoreFlush \/ StoreClose \/ StoreCrash \/ StoreLoad

SpecStore == InitStore /\ [][NextStore]_vars

\* C24: after a crash inside save_state the state file holds the whole new
\* record, or what it held before the call
C24_SaveAtomic ==
  store.crashed
    => \/ Content(store) = store.text
       \/ store.exists = store.had /\ Content(store) = store.before

\* C25, as stated: load_state after save_state returns the saved filepath,
\* url, total_size and chunk ranges, and under every chunk index of the saved
\* progress dict the saved value
C25_SameProgressKeys ==
  (store.loaded # <<>> /\ store.saves > 0 /\ ~store.crashed)
    => /\ store.loaded[1] # NoState
       /\ store.loaded[1].filepath = store.state.filepath
       /\ store.loaded[1].url = store.state.url
       /\ store.loaded[1].total_size = store.state.total_size
       /\ store.loaded[1].chunk_ranges = store.state.chunk_ranges
       /\ \A k \in DOMAIN store.state.downloaded_chunks :
            /\ k \in DOMAIN store.loaded[1].downloaded_chunks
            /\ store.loaded[1].downloaded_chunks[k]
                 = store.state.downloaded_chunks[k]

\* C25: load_state after save_state returns the saved filepath, url,
\* total_size and chunk ranges (the open end of the last range included), and
\* a progress dict whose keys are the strings str(i) of the saved chunk
\* indices i, with the saved value under str(i)
C25_StringProgressKeys ==
  (store.loaded # <<>> /\ store.saves > 0 /\ ~store.crashed)
    => /\ store.loaded[1] # NoState
       /\ store.loaded[1].filepath = store.state.filepath
       /\ store.loaded[1].url = store.state.url
       /\ store.loaded[1].total_size = store.state.total_size
       /\ store.loaded[1].chunk_ranges = store.state.chunk_ranges
       /\ DOMAIN store.loaded[1].downloaded_chunks
            = {str(k) : k \in DOMAIN store.state.downloaded_chunks}
       /\ \A k \in DOMAIN store.state.downloaded_chunks :
            store.loaded[1].downloaded_chunks[str(k)]
              = store.state.downloaded_chunks[k]

\* a record with the progress of two chunks and an open last range was saved
\* over an earlier record and loaded
C25_LoadedAfterSave ==
  /\ store.loaded # <<>> /\ store.saves = 2 /\ ~store.crashed
  /\ store.loaded[1] # NoState
  /\ Cardinality(DOMAIN store.state.downloaded_chunks) = 2
  /\ store.state.chunk_ranges[Len(store.state.chunk_ranges)][2] = None
  /\ store.had

-----------------------------------------------------------------------------
(* DownloadOptimizer.backoff_factors of one URL, the fraction num / den     *)

\* a handle_server_error without the cap
UncappedError(b) ==
  [b EXCEPT !.known = TRUE,
            !.num = 3 * (IF b.known THEN b.num ELSE 1),
            !.den = 2 * (IF b.known THEN b.den ELSE 1)]

\* lines 116-122: 1.0 for a URL without an entry, then min(8.0, factor * 1.5)
handle_server_error(b) ==
  LET num == 3 * (IF b.known THEN b.num ELSE 1)
      den == 2 * (IF b.known THEN b.den ELSE 1)
  IN IF num > 8 * den
     THEN [b EXCEPT !.known = TRUE, !.num = 8, !.den = 1]
     ELSE [b EXCEPT !.known = TRUE, !.num = num, !.den = den]

InitBackoff ==
  /\ InitStill
  /\ clock = 0
  /\ optimizer = NoBucket
  /\ fetcher = [f \in Fetchers |-> NoFetcher]
  /\ plan = NoPlan
  /\ store = NoStore
  /\ backoff_factors = NoFactors
  /\ state_dir = NoDir
  /\ ui = NoReader

\* handle_server_error(url)
SignalError ==
  /\ backoff_factors.calls < MaxCalls
  /\ backoff_factors' = [handle_server_error(backoff_factors) EXCEPT !.calls = @ + 1]
  /\ UNCHANGED <<downloads, clock, optimizer, fetcher, plan, store,
                 state_dir, ui>>

\* update_speed(url, bytes_downloaded, duration) with duration > 0, lines
\* 52-55: a factor above 1.0 becomes max(1.0, factor * 0.9)
RecordThroughput ==
  /\ backoff_factors.calls < MaxCalls
  /\ backoff_factors' =
       LET b == backoff_factors IN
       IF b.known /\ b.num > b.den
       THEN IF 9 * b.num < 10 * b.den
            THEN [b EXCEPT !.num = 1, !.den = 1, !.calls = @ + 1]
            ELSE [b EXCEPT !.num = 9 * b.num, !.den = 10 * b.den, !.calls = @ + 1]
       ELSE [b EXCEPT !.calls = @ + 1]
  /\ UNCHANGED <<downloads, clock, optimizer, fetcher, plan, store,
                 state_dir, ui>>

\* apply_rate_limit(url, n), lines 68-72: the first call for a URL sets its
\* factor to 1.0; later calls read the factor
AwaitTokens ==
  /\ backoff_factors.calls < MaxCalls
  /\ backoff_factors' =
       IF backoff_factors.limited
       THEN [backoff_factors EXCEPT !.calls = @ + 1]
       ELSE [backoff_factors EXCEPT !.known = TRUE, !.limited = TRUE,
                                    !.num = 1, !.den = 1, !.calls = @ + 1]
  /\ UNCHANGED <<downloads, clock, optimizer, fetcher, plan, store,
                 state_dir, ui>>

NextBackoff == SignalError \/ RecordThroughput \/ AwaitTokens

SpecBackoff == InitBackoff /\ [][NextBackoff]_vars

\* C28: the backoff factor of a URL that has one lies in [1.0, 8.0], and a
\* step changes it to min(8.0, factor * 1.5), to max(1.0, factor * 0.9) or,
\* in the first apply_rate_limit, to 1.0
C28_FactorInRange ==
  /\ [](backoff_factors.known
          => /\ backoff_factors.den <= backoff_factors.num
             /\ backoff_factors.num <= 8 * backoff_factors.den)
  /\ [][LET old == IF backoff_factors.known THEN backoff_factors
                   ELSE [backoff_factors EXCEPT !.num = 1, !.den = 1]
            new == backoff_factors'
            Same(n, d) == new.num = n /\ new.den = d
        IN \/ Same(old.num, old.den)
           \/ Same(1, 1) /\ (~backoff_factors.limited \/ 9 * old.num < 10 * old.den)
           \/ Same(3 * old.num, 2 * old.den) /\ 3 * old.num <= 16 * old.den
           \/ Same(8, 1) /\ 3 * old.num > 16 * old.den
           \/ Same(9 * old.num, 10 * old.den) /\ 9 * old.num >= 10 * old.den
       ]_vars

\* the factor was capped at 8.0 by the sixth error and reduced to 7.2 by a
\* sample
C28_CappedThenReduced ==
  /\ backoff_factors.known
  /\ backoff_factors.num * 5 = 36 * backoff_factors.den
  /\ backoff_factors.calls = 7

-----------------------------------------------------------------------------
(* What the properties observe *)

\* the fetches that hold a slot: returned from acquire, release not yet called
Holding(tk) == tk.pc \in {"get", "stream", "backoff"}

InFlight(h) ==
  Cardinality({id \in TaskIds : Holding(task[id]) /\ get_host(task[id].url) = h})
  + Cardinality({j \in Jobs : job[j].pc = "head" /\ get_host(job[j].url) = h})

InFlightTotal ==
  Cardinality({id \in TaskIds : Holding(task[id])})
  + Cardinality({j \in Jobs : job[j].pc = "head"})

\* the coroutines that took a permit of the global semaphore and did not
\* give it back
HeldGlobal ==
  Cardinality({id \in TaskIds : task[id].pc = "acq_h" \/ Holding(task[id])})
  + Cardinality({j \in Jobs : job[j].pc \in {"head_h", "head"}})

max_connections == cfg.max_concurrent * 2

max_per_host == cfg.max_concurrent

\* the permits that are out of the host semaphores
HostPermitsOut ==
  LET RECURSIVE Out(_)
      Out(hs) == IF hs = {} THEN 0
                 ELSE LET h == CHOOSE x \in hs : TRUE
                      IN max_per_host - pool.host_semaphores[h] + Out(hs \ {h})
  IN Out(Hosts)

\* the tasks that have the part file of chunk c of job j open for writing
Writers(j, c) ==
  {id \in TaskIds : id[1] = j /\ id[3] = c /\ task[id].pc = "stream"
                    /\ task[id].handle = "part"}

\* the planned length of the chunk of a task of job j
PlannedLength(j, tk) ==
  (IF tk.end # None THEN tk.end ELSE jobs[j].size - 1) - tk.start + 1

\* the file the server of job j serves
Served(j) == BlocksOf(0, jobs[j].size - 1)

-----------------------------------------------------------------------------
(* Properties *)

\* C1: no two chunk fetchers have the same part file open for writing at the
\* same time, within one attempt of download_file and across its attempts
C1_OneWriterPerPart ==
  \A j \in Jobs, c \in ChunkIds : Cardinality(Writers(j, c)) <= 1

\* C2: the fetches that returned from acquire and did not yet call release
\* are at most max_connections in total and at most max_per_host per host
C2_InFlightWithinLimits ==
  /\ InFlightTotal <= max_connections
  /\ \A h \in Hosts : InFlight(h) <= max_per_host

\* C2, its case: both limits are reached while another coroutine waits for a
\* permit of the global semaphore
C2_LimitsReached ==
  /\ InFlightTotal = max_connections
  /\ \E h \in Hosts : InFlight(h) = max_per_host
  /\ GlobalWaiters

C4_MergeAfterAllTasks ==
  \A j \in Jobs : job[j].pc = "merge" =>
    \A id \in TaskIds : id[1] = j => ~Live(task[id])

\* C5: a chunk fetch that returned reports the number of bytes its part file
\* holds, and not more than the planned length of its chunk
C5_ReturnedBytes ==
  \A id \in TaskIds :
    LET j == id[1]
        k == <<id[1], id[3]>>
    IN (task[id].pc = "done" /\ id[2] = Attempt(j)
        /\ job[j].pc \in {"gather", "inline"} /\ parts[k] # NoFile)
       => /\ task[id].bytes_downloaded = getsize(parts[k])
          /\ task[id].start # None =>
               task[id].bytes_downloaded <= PlannedLength(j, task[id])

\* C6: when download_file has returned successfully and HEAD had reported a
\* size, the destination holds that many bytes
C6_DestinationSize ==
  \A j \in Jobs :
    (job[j].pc = "done" /\ job[j].file_size > 0) => getsize(dest[j]) = job[j].file_size

\* C7: a download that resumed from a state record and the part files on
\* disk, from a server that serves exact bodies, ends with the file an
\* uninterrupted download produces
C7_ResumedIdentical ==
  \A j \in Jobs :
    (job[j].pc = "done" /\ job[j].resume_state # NoState /\ jobs[j].exact)
    => dest[j] = Served(j)

\* C8: with resume enabled, a fetch that has streamed for 5 s or more has
\* left a state file for its destination
C8_StateSavedWhileStreaming ==
  \A id \in TaskIds :
    (cfg.enable_resume /\ task[id].pc = "stream" /\ task[id].late)
    => statefile[id[1]] # NoState

\* C9: with resume enabled, a destination has a state file exactly when it
\* has a part file and no final file
C9_StateIffPartial ==
  cfg.enable_resume =>
    \A j \in Jobs :
      (statefile[j] # NoState)
      <=> ((\E c \in ChunkIds : parts[<<j, c>>] # NoFile) /\ dest[j] = NoFile)

\* C10: after download_file returned successfully, the destination has no
\* state file
C10_NoStateAfterSuccess ==
  \A j \in Jobs : job[j].pc = "done" => statefile[j] = NoState

-----------------------------------------------------------------------------
(* One call of calculate_optimal_chunks and the requests of its chunks *)

\* sizes at and around the tiers, multiples of the chunk count and not
FileSizes ==
  {0, 1, 3, ReadSize, MiB - 1, MiB, MiB + 1, 5 * MiB + 3, 10 * MiB - 1,
   10 * MiB, 10 * MiB + 3, 64 * MiB + 1, 100 * MiB - 1, 100 * MiB,
   100 * MiB + 7}

InitPlan ==
  /\ InitStill
  /\ clock = 0
  /\ optimizer = NoBucket
  /\ fetcher = [f \in Fetchers |-> NoFetcher]
  /\ store = NoStore
  /\ backoff_factors = NoFactors
  /\ state_dir = NoDir
  /\ ui = NoReader
  /\ \E size \in FileSizes, m \in 1 .. MaxPlanChunks :
       plan = [NoPlan EXCEPT !.pc = "call", !.file_size = size, !.max_chunks = m]

\* line 353
PlanChunks ==
  /\ plan.pc = "call"
  /\ plan' = [plan EXCEPT !.pc = "planned",
                          !.chunks = calculate_optimal_chunks(plan.file_size,
                                                              plan.max_chunks)]
  /\ UNCHANGED <<downloads, clock, optimizer, fetcher, store, backoff_factors,
                 state_dir, ui>>

\* lines 365-384 and 141-149: the Range header of each chunk's first GET in
\* a download that resumes nothing, as first and last byte (None: open)
RequestChunks ==
  /\ plan.pc = "planned"
  /\ plan' = [plan EXCEPT
                !.pc = "requested",
                !.ranges = [i \in DOMAIN plan.chunks |->
                              LET tk == [NoTask EXCEPT !.start = plan.chunks[i][1],
                                                       !.end = plan.chunks[i][2]]
                              IN <<FirstByte(tk), tk.end>>]]
  /\ UNCHANGED <<downloads, clock, optimizer, fetcher, store, backoff_factors,
                 state_dir, ui>>

NextPlan == PlanChunks \/ RequestChunks

SpecPlan == InitPlan /\ [][NextPlan]_vars

-----------------------------------------------------------------------------
(* Properties of the token bucket *)

RECURSIVE ReadsUpTo(_)

\* reads done by the fetchers 1 .. f
ReadsUpTo(f) == IF f = 0 THEN 0 ELSE fetcher[f].reads + ReadsUpTo(f - 1)

\* bytes the fetchers of the URL have transferred since time 0
Transferred == ReadsUpTo(MaxFetchers) * ReadSize

\* C11: with a limit L, the fetchers that share one URL's bucket transfer
\* at most 1.2 * L * 10 bytes in a window of 10 seconds (here the window that
\* starts with the first call)
C11_WindowWithinLimit ==
  (optimizer.max_speed_limit # None /\ clock < 10 * TicksPerSecond)
    => Transferred * 10 <= 12 * optimizer.max_speed_limit * 10

\* C12: with a limit L, a single fetcher that has transferred S bytes in
\* reads of 65536 bytes has spent at least S / L seconds
C12_SingleFetcherTime ==
  \A f \in Fetchers :
    (/\ optimizer.max_speed_limit # None
     /\ \A g \in Fetchers \ {f} : fetcher[g].pc = "none"
     /\ fetcher[f].todo > 0
     /\ fetcher[f].reads = fetcher[f].todo)
      => clock * optimizer.max_speed_limit
           >= fetcher[f].reads * ReadSize * TicksPerSecond

-----------------------------------------------------------------------------
(* Properties of the range protocol and of the retry loops *)

\* C13: a fetcher of a chunk with index > 0 that received status 200 for its
\* ranged GET has failed for good: it does not wait for a retry of the chunk
C13_NoRetryAfter200 ==
  \A id \in TaskIds :
    (id[3] > 0 /\ HasRange(task[id]) /\ task[id].status = 200)
      => task[id].pc # "backoff"

\* C14: after chunk 0 received status 200 for a ranged GET the fetcher has
\* restarted from zero: the count of the body being written equals the bytes
\* in the part file, and a retry asks for the chunk from its first byte
C14_RestartFromZero ==
  \A id \in TaskIds :
    (id[3] = 0 /\ HasRange(task[id]) /\ task[id].status = 200)
      => /\ task[id].pc = "stream" /\ task[id].handle = "part"
              => task[id].bytes_downloaded = getsize(parts[<<id[1], 0>>])
         /\ task[id].pc = "backoff"
              => FirstByte(task[id])
                   = (IF task[id].start # None THEN task[id].start ELSE 0)

\* C15: on a restart with a valid state record no request is in flight for
\* a chunk whose recorded bytes equal its planned length, and the request of
\* an unfinished chunk starts at start + recorded bytes
C15_ResumeRequests ==
  \A id \in TaskIds :
    (/\ job[id[1]].resume_state # NoState
     /\ task[id].start # None
     /\ task[id].pc = "get")
      => /\ task[id].resume_from < PlannedLength(id[1], task[id])
         /\ FirstByte(task[id]) = task[id].start + task[id].resume_from

\* C19: one _download_chunk task performs at most retry_count GET requests,
\* raises only when retry_count requests have failed, and comes to an end
C19_FetcherBounded ==
  /\ [](\A id \in TaskIds :
          /\ task[id].gets <= retry_count
          /\ task[id].pc = "failed" => task[id].gets = retry_count)
  /\ <>[](\A id \in TaskIds : ~Live(task[id]))

\* a fetcher has raised after its third request
C19_FetcherExhausted ==
  \E id \in TaskIds : task[id].pc = "failed" /\ task[id].gets = retry_count

\* C20: download_file runs at most retry_count attempts, sleeps 2^attempt
\* seconds and calls handle_server_error once between two attempts, raises
\* only after its last attempt, and comes to an end
C20_JobBounded ==
  /\ [](\A j \in Jobs :
          /\ Attempt(j) <= retry_count
          /\ job[j].pc = "failed" => Attempt(j) = retry_count
          /\ job[j].pc = "sleep"
               => /\ job[j].sleep_time = 2 ^ job[j].retries
                  /\ job[j].signalled = job[j].retries - 1
          /\ job[j].pc \notin {"sleep", "idle"}
               => job[j].signalled = job[j].retries)
  /\ <>[](\A j \in Jobs : job[j].pc \in {"idle", "done", "failed"})

\* download_file sleeps between its second and its third attempt
C20_SecondBackoff ==
  \E j \in Jobs : job[j].pc = "sleep" /\ job[j].retries = 2 /\ job[j].signalled = 1


-----------------------------------------------------------------------------
(* Properties of the planner *)

\* the last byte of chunk i of the plan (an open end reaches the end of the
\* file)
EndOf(i) ==
  IF plan.chunks[i][2] = None THEN plan.file_size - 1 ELSE plan.chunks[i][2]

\* C16: for file_size > 0 and max_chunks >= 1 the plan is not empty and its
\* ranges, in index order, start at byte 0, are contiguous, do not overlap
\* and cover exactly the bytes 0 .. file_size - 1
C16_PlanCovers ==
  (plan.pc # "call" /\ plan.file_size > 0)
    => LET n == Len(plan.chunks)
       IN /\ n >= 1
          /\ plan.chunks[1][1] = 0
          /\ \A i \in 1 .. n : plan.chunks[i][1] <= EndOf(i)
          /\ \A i \in 1 .. (n - 1) : plan.chunks[i + 1][1] = EndOf(i) + 1
          /\ EndOf(n) = plan.file_size - 1

\* a plan of several chunks for a size that is not a multiple of their number
C16_UnevenPlan ==
  /\ plan.pc = "planned"
  /\ Len(plan.chunks) > 1
  /\ plan.file_size % Len(plan.chunks) # 0

\* C17 as stated: every chunk but the last has length floor(file_size / n)
\* and the end of the last chunk is file_size - 1
C17_LastEndClosed ==
  (plan.pc # "call" /\ plan.file_size > 0)
    => LET n == Len(plan.chunks)
       IN /\ \A i \in 1 .. (n - 1) :
               plan.chunks[i][2] - plan.chunks[i][1] + 1 = plan.file_size \div n
          /\ plan.chunks[n][2] = plan.file_size - 1

\* C17: every chunk but the last has length floor(file_size / n); the last
\* chunk starts at (n - 1) * floor(file_size / n) and its end is open (None),
\* so that its request has no last byte
C17_LastEndOpen ==
  (plan.pc # "call" /\ plan.file_size > 0)
    => LET n == Len(plan.chunks)
       IN /\ \A i \in 1 .. (n - 1) :
               plan.chunks[i][2] - plan.chunks[i][1] + 1 = plan.file_size \div n
          /\ plan.chunks[n][1] = (n - 1) * (plan.file_size \div n)
          /\ plan.chunks[n][2] = None
          /\ plan.pc = "requested" => plan.ranges[n] = <<plan.chunks[n][1], None>>

\* the requests of a plan whose last chunk takes a remainder
C17_RemainderRequested ==
  /\ plan.pc = "requested"
  /\ Len(plan.chunks) > 1
  /\ plan.file_size % Len(plan.chunks) # 0

\* C18 as stated: a file of 1048576 bytes with max_chunks = 4 is requested
\* as four chunks of 262144 bytes
C18_FourChunks ==
  (plan.pc = "requested" /\ plan.file_size = MiB /\ plan.max_chunks = 4)
    => plan.ranges = << <<0, 262143>>, <<262144, 524287>>, <<524288, 786431>>,
                        <<786432, 1048575>> >>

\* C18: a file of 1048576 bytes with max_chunks = 4 is planned and requested
\* as two chunks, bytes 0-524287 and bytes 524288 to the end
C18_TwoChunks ==
  (plan.pc # "call" /\ plan.file_size = MiB /\ plan.max_chunks = 4)
    => /\ plan.chunks = << <<0, 524287>>, <<524288, None>> >>
       /\ plan.pc = "requested" => plan.ranges = plan.chunks

\* the requests of the 1 MiB file with max_chunks = 4
C18_MiBRequested ==
  plan.pc = "requested" /\ plan.file_size = MiB /\ plan.max_chunks = 4

-----------------------------------------------------------------------------
(* Properties of a batch *)

\* C21: at most max_per_host requests to one host are in flight at any time,
\* and in the end no coroutine is left waiting in acquire and every job whose
\* server answers HEAD and GET has completed, on one host and on several
C21_NoWaitForever ==
  /\ [](\A h \in Hosts : InFlight(h) <= max_per_host)
  /\ <>[](/\ ~GlobalWaiters
          /\ \A h \in Hosts : ~HostWaiters(h)
          /\ \A j \in Jobs :
               jobs[j].on /\ jobs[j].head_ok /\ jobs[j].get_ok => job[j].pc = "done")

\* a host is at its limit, another job of the batch waits for that host with
\* a global permit in hand, and a job of another host waits for a global
\* permit
C21_HostContended ==
  \E h \in Hosts, j \in Jobs :
    /\ InFlight(h) = max_per_host
    /\ HostWaiters(h)
    /\ job[j].pc = "head_g"
    /\ get_host(job[j].url) # h

\* C22: when the batch has ended with a job that failed after its retries,
\* every job of the batch has ended, and every sibling of the failed job
\* whose server answers HEAD and GET has completed with the served file as
\* its destination (the servers of a batch of several jobs answer without
\* faults)
C22_SiblingsComplete ==
  (engine = "stopped" /\ \E i \in Jobs : job[i].pc = "failed")
    => \A i \in Jobs, j \in Jobs :
         /\ job[j].pc \in {"idle", "done", "failed"}
         /\ (i # j /\ job[i].pc = "failed"
             /\ jobs[j].on /\ jobs[j].head_ok /\ jobs[j].get_ok)
              => job[j].pc = "done" /\ dest[j] = Served(j)

\* a batch has ended with a failed job, a completed sibling on the same host
\* and a completed sibling on another host
C22_FailedAmongDone ==
  /\ engine = "stopped"
  /\ \E i \in Jobs, j \in Jobs, k \in Jobs :
       /\ job[i].pc = "failed" /\ job[j].pc = "done" /\ job[k].pc = "done"
       /\ j # k
       /\ get_host(jobs[j].url) = get_host(jobs[i].url)
       /\ get_host(jobs[k].url) # get_host(jobs[i].url)
       /\ dest[j] = Served(j) /\ dest[k] = Served(k)

\* C23: when the batch has ended with a job that failed after its retries,
\* the caller of start_downloads holds a result or an exception for that job
C23_FailureDelivered ==
  (engine = "stopped" /\ \E j \in Jobs : job[j].pc = "failed")
    => start_downloads # None

\* C26: the last except clause of a failing job removes no part file when
\* resume is enabled; with resume disabled no part file of the destination is
\* on disk once the job has failed and none of its chunk fetchers is running
C26_PartsAfterFailure ==
  /\ [][\A j \in Jobs :
          (cfg.enable_resume /\ job[j].pc # "failed" /\ job'[j].pc = "failed")
            => \A c \in ChunkIds : parts'[<<j, c>>] = parts[<<j, c>>]]_vars
  /\ [](\A j \in Jobs :
          (~cfg.enable_resume /\ job[j].pc = "failed"
           /\ \A id \in TaskIds : id[1] = j => ~Live(task[id]))
            => \A c \in ChunkIds : parts[<<j, c>>] = NoFile)

\* C27: active_downloads has an entry for a chunk of a destination exactly
\* while a fetcher of that chunk is running, and is empty once the batch has
\* ended
C27_ActiveWhileRunning ==
  /\ \A j \in Jobs, c \in ChunkIds :
       Key(j, c) \in DOMAIN active_downloads
         <=> \E a \in Attempts : Live(task[<<j, a, c>>])
  /\ engine = "stopped" => active_downloads = EmptyDict

\* C29: while a fetcher sleeps between two attempts it holds no slot: the
\* permits missing from the global semaphore and from the semaphore of a host
\* are held by coroutines that wait for the host, request or stream
C29_NoSlotWhileSleeping ==
  (engine = "run" /\ \E id \in TaskIds : task[id].pc = "backoff")
    => /\ max_connections - pool.semaphore
            <= Cardinality({id \in TaskIds : task[id].pc \in {"acq_h", "get", "stream"}})
               + Cardinality({j \in Jobs : job[j].pc \in {"head_h", "head"}})
       /\ \A h \in Hosts :
            max_per_host - pool.host_semaphores[h]
              <= Cardinality({id \in TaskIds : /\ task[id].pc \in {"get", "stream"}
                                                /\ get_host(task[id].url) = h})
                 + Cardinality({j \in Jobs : /\ job[j].pc = "head"
                                             /\ get_host(job[j].url) = h})

\* C30: a host permit is taken only by a coroutine that took a global permit
\* before, in the same or in an earlier step, and is given back together
\* with the global permit, so the permits out of the host semaphores never
\* exceed the permits out of the global semaphore
C30_GlobalBeforeHost ==
  /\ [](HostPermitsOut <= max_connections - pool.semaphore)
  /\ [][((\E h \in Hosts : pool'.host_semaphores[h] < pool.host_semaphores[h])
            => \/ pool'.semaphore < pool.semaphore
               \/ \E id \in TaskIds : task[id].pc = "acq_h" /\ task'[id].pc = "get"
               \/ \E j \in Jobs : job[j].pc = "head_h" /\ job'[j].pc = "head"
               \/ pool' = NewEngine(cfg))
        /\ (pool'.semaphore > pool.semaphore
            => \/ \E h \in Hosts : pool'.host_semaphores[h] > pool.host_semaphores[h]
               \/ pool' = NewEngine(cfg))
       ]_vars

\* a coroutine holds a global permit and waits for the permit of a host
\* whose permits are all out
C30_GlobalHeldHostAwaited ==
  /\ engine = "run"
  /\ HostPermitsOut > 0
  /\ HostPermitsOut < max_connections - pool.semaphore
  /\ \E h \in Hosts : pool.host_semaphores[h] = 0 /\ HostWaiters(h)

\* C31: a fetcher that sleeps after an attempt that failed on a response with
\* a status other than 200 and 206 (a refreshed 458 apart) has called
\* handle_server_error for that response
C31_OneSignalPerRejection ==
  \A id \in TaskIds :
    task[id].pc = "backoff" /\ task[id].status \notin {None, 200, 206, 458}
      => task[id].signalled

-----------------------------------------------------------------------------
(* The 458 branch of _download_chunk, on a portal that answers every GET
   with 458 (get_status = 458) *)

\* C32 as stated: every response of a server that answers 458 to every GET
\* is followed by a token refresh: the fetcher sleeps 2 s with one retry more
C32_RefreshPerExpiry ==
  [][\A id \in TaskIds :
       jobs[id[1]].get_status = 458 /\ task[id].pc = "get"
       /\ task'[id].pc # "get"
         => /\ task'[id].pc = "backoff" /\ task'[id].status = 458
            /\ task'[id].sleep_time = 2
            /\ task'[id].retries = task[id].retries + 1]_vars

\* C32: a 458 on an attempt before the last is followed by one token
\* refresh, one more retry and a sleep of 2 s; a 458 on the last attempt is
\* followed by no refresh and no sleep: the fetcher fails, after retry_count
\* GETs
C32_RefreshUnlessLast ==
  [][\A id \in TaskIds :
       jobs[id[1]].get_status = 458 /\ task[id].pc = "get"
       /\ task'[id].pc # "get"
         => IF task[id].retries < retry_count - 1
            THEN /\ task'[id].pc = "backoff" /\ task'[id].status = 458
                 /\ task'[id].sleep_time = 2
                 /\ task'[id].retries = task[id].retries + 1
                 /\ task'[id].url \in authenticate(task[id].url)
                 /\ task'[id].gets = task'[id].retries
            ELSE /\ task'[id].pc = "failed"
                 /\ task'[id].gets = retry_count]_vars

\* a fetcher has failed on its third 458
C32_FailedAfterRefreshes ==
  \E id \in TaskIds :
    jobs[id[1]].get_status = 458 /\ task[id].pc = "failed" /\ task[id].gets = retry_count


-----------------------------------------------------------------------------
(* os.makedirs and aiofiles.open in _download_chunk *)

\* C33: a fetcher whose destination directory cannot be written issues one
\* GET at most and never sleeps in a backoff
C33_LocalFailureSurfaced ==
  \A id \in TaskIds :
    ~jobs[id[1]].writable => task[id].pc # "backoff" /\ task[id].gets <= 1

-----------------------------------------------------------------------------
(* The counters of ConnectionPool *)

\* C34: active_connections counts for every URL the slots held for it,
\* host_connections for every host the slots held on it, and both tables are
\* empty when no slot is held
C34_CountersMatchSlots ==
  LET held(u) ==
        Cardinality({id \in TaskIds : Holding(task[id]) /\ task[id].url = u})
        + Cardinality({j \in Jobs : job[j].pc = "head" /\ job[j].url = u})
      urls == DOMAIN pool.active_connections
              \cup {task[id].url : id \in TaskIds} \cup {job[j].url : j \in Jobs}
  IN /\ \A u \in urls : DictGet(pool.active_connections, u, 0) = held(u)
     /\ \A h \in Hosts : DictGet(pool.host_connections, h, 0) = InFlight(h)
     /\ InFlightTotal = 0 =>
           pool.active_connections = EmptyDict /\ pool.host_connections = EmptyDict

-----------------------------------------------------------------------------
(* DownloadState._get_state_path: the state files of two destinations *)

MaxPathLen == 3

\* lines 19-23: the separators of the path are replaced by underscores, the
\* name is put into the state directory
get_state_path(filepath) ==
  <<".download_state", "/">>
  \o [i \in 1 .. Len(filepath) |->
        IF filepath[i] \in {"/", "\\", ":"} THEN "_" ELSE filepath[i]]
  \o <<".state">>

\* two destination paths, as sequences of characters
InitDir ==
  /\ InitStill
  /\ clock = 0
  /\ optimizer = NoBucket
  /\ fetcher = [f \in Fetchers |-> NoFetcher]
  /\ plan = NoPlan
  /\ store = NoStore
  /\ backoff_factors = NoFactors
  /\ ui = NoReader
  /\ \E p, q \in UNION {[1 .. n -> {"a", "/", ":", "_"}] : n \in 1 .. MaxPathLen} :
       p # q /\ state_dir = [NoDir EXCEPT !.paths = <<p, q>>]

\* save_state(filepath, ...), lines 37-48
DirSave ==
  /\ \E i \in 1 .. 2 :
       LET filepath == state_dir.paths[i]
       IN state_dir' = [state_dir EXCEPT
                          !.files = DictSet(@, get_state_path(filepath), filepath),
                          !.saved = @ \cup {filepath}]
  /\ UNCHANGED <<downloads, clock, optimizer, fetcher, plan, store,
                 backoff_factors, ui>>

\* clear_state(filepath), lines 84-86
DirClear ==
  /\ \E i \in 1 .. 2 :
       LET filepath == state_dir.paths[i]
       IN state_dir' = [state_dir EXCEPT
                          !.files = DictDel(@, get_state_path(filepath)),
                          !.saved = @ \ {filepath}]
  /\ UNCHANGED <<downloads, clock, optimizer, fetcher, plan, store,
                 backoff_factors, ui>>

SpecDir == InitDir /\ [][DirSave \/ DirClear]_vars

\* C35: the state file of a destination whose record was saved and not
\* cleared holds that record, whatever was saved or cleared for the other
\* destination
C35_OwnStateFile ==
  \A filepath \in state_dir.saved :
    /\ get_state_path(filepath) \in DOMAIN state_dir.files
    /\ state_dir.files[get_state_path(filepath)] = filepath

-----------------------------------------------------------------------------
(* The progress callback of _download_chunk *)

\* C36: after every block a fetcher has written, the percent value of lines
\* 244-248, (chunk_id / total_chunks + (bytes_downloaded / chunk_size_bytes)
\* / total_chunks) * 100, lies between 0 and 100
C36_PercentInRange ==
  \A id \in TaskIds :
    LET tk == task[id]
        chunk_id == id[3]
        total_chunks == job[id[1]].nchunks
        chunk_size_bytes == IF tk.end # None /\ tk.start # None
                            THEN tk.end - tk.start + 1 ELSE tk.total_size
    IN tk.pc = "stream" /\ tk.fpos > 0 /\ tk.total_size > 0
         => /\ tk.bytes_downloaded >= 0
            /\ chunk_id * chunk_size_bytes + tk.bytes_downloaded
                 <= total_chunks * chunk_size_bytes

-----------------------------------------------------------------------------
(* The chunk tasks of an attempt of download_file *)

\* C37: a chunk task runs only while the attempt of download_file that
\* spawned it waits in its gather (or, for a single download, awaits it)
C37_NoTaskOutlivesAttempt ==
  \A id \in TaskIds :
    Live(task[id]) =>
      job[id[1]].pc \in {"gather", "inline"} /\ id[2] = Attempt(id[1])

-----------------------------------------------------------------------------
(* DownloadManager.get_active_downloads, read by the UI thread while the    *)
(* event-loop thread of the engine writes active_downloads                  *)

InitTable ==
  /\ InitStill
  /\ clock = 0
  /\ optimizer = NoBucket
  /\ fetcher = [f \in Fetchers |-> NoFetcher]
  /\ plan = NoPlan
  /\ store = NoStore
  /\ backoff_factors = NoFactors
  /\ state_dir = NoDir
  /\ ui = NoReader

\* the fetcher of a chunk of job 1, between two bytecodes of the UI thread:
\* it enters its entry (lines 116-124), adds a block to it (line 199) or
\* deletes it after the last block (line 262)
EngineWrites ==
  /\ \E c \in ChunkIds :
       LET k == Key(1, c)
           tk == [NoTask EXCEPT !.total_size = 2 * BlockSize]
       IN \/ /\ k \notin DOMAIN active_downloads
             /\ active_downloads' = BeginActive(active_downloads, tk, 1, c)
          \/ /\ k \in DOMAIN active_downloads
             /\ active_downloads[k].bytes_downloaded < active_downloads[k].total_size
             /\ active_downloads' =
                  [active_downloads EXCEPT ![k].bytes_downloaded = @ + BlockSize]
          \/ /\ k \in DOMAIN active_downloads
             /\ active_downloads[k].bytes_downloaded = active_downloads[k].total_size
             /\ active_downloads' = DictDel(active_downloads, k)
  /\ UNCHANGED <<cfg, jobs, faults, engine, pool, job, task, parts, dest,
                 statefile, units>>

\* lines 551-555: the call begins, the iterator over the items of the table is
\* created and remembers the size of the table
ReaderStart ==
  /\ ui.pc # "iter"
  /\ ui' = [NoReader EXCEPT !.pc = "iter",
                            !.used = Cardinality(DOMAIN active_downloads)]
  /\ UNCHANGED <<downloads, clock, optimizer, fetcher, plan, store,
                 backoff_factors, state_dir>>

\* lines 555-579: the iterator is asked for the next item; it raises
\* RuntimeError (dictionary changed size during iteration) when the table has
\* another size than at its creation, else the item is added to the result, or
\* the result is returned after the last item
ReaderNext ==
  /\ ui.pc = "iter"
  /\ IF Cardinality(DOMAIN active_downloads) # ui.used
     THEN ui' = [ui EXCEPT !.pc = "raised"]
     ELSE IF DOMAIN active_downloads \subseteq ui.seen
     THEN ui' = [ui EXCEPT !.pc = "returned"]
     ELSE \E k \in DOMAIN active_downloads \ ui.seen :
            ui' = [ui EXCEPT !.seen = @ \cup {k},
                             !.bytes_downloaded =
                                 @ + active_downloads[k].bytes_downloaded]
  /\ UNCHANGED <<downloads, clock, optimizer, fetcher, plan, store,
                 backoff_factors, state_dir>>

SpecTable == InitTable /\ [][EngineWrites \/ ReaderStart \/ ReaderNext]_vars

\* C38: a call of get_active_downloads from the UI thread completes: it
\* never fails because the engine changed the table during its iteration
C38_ReadCompletes == ui.pc # "raised"

-----------------------------------------------------------------------------
(* apply_rate_limit and the backoff factor *)

\* C39: the first apply_rate_limit for a URL leaves a backoff factor that
\* handle_server_error has set as it is, and every step that changes a
\* factor without raising it by 1.5 (capped at 8.0) is the decay by 0.9
\* (floored at 1.0) of update_speed
C39_AwaitKeepsFactor ==
  [][LET old == IF backoff_factors.known THEN backoff_factors
                ELSE [backoff_factors EXCEPT !.num = 1, !.den = 1]
         new == backoff_factors'
         Same(n, d) == new.num = n /\ new.den = d
     IN /\ (~backoff_factors.limited /\ new.limited) => Same(old.num, old.den)
        /\ \/ Same(old.num, old.den)
           \/ Same(3 * old.num, 2 * old.den) /\ 3 * old.num <= 16 * old.den
           \/ Same(8, 1) /\ 3 * old.num > 16 * old.den
           \/ Same(9 * old.num, 10 * old.den) /\ 9 * old.num >= 10 * old.den
           \/ Same(1, 1) /\ 9 * old.num < 10 * old.den
    ]_vars

-----------------------------------------------------------------------------
(* A destination file that existed before the job *)

\* C40: the file that the destination path held before the job started (the
\* block 0) is replaced only by a step of the merge or of the rename of the
\* job, and is never removed
C40_FailureKeepsDestination ==
  [][\A j \in Jobs :
       (dest[j] = <<0>> /\ dest'[j] # dest[j])
         => (dest'[j] # NoFile /\ job'[j].pc \in {"merge", "done"})]_vars

====
